---------------------------- MODULE Spec2Model ----------------------------
(***************************************************************************)
(* Curage-lang language server: tokenizer, error-recovering parser and     *)
(* static analyzer of lsp/src/curage-server.ts.                            *)
(*                                                                         *)
(* A source text is a sequence of one-character strings.  The parser is a  *)
(* state machine over the token cursor i: one action per iteration of the  *)
(* loops of parseTopLevel and parseClause, the recursion of parseClause    *)
(* being kept on an explicit stack of statement lists.  The analyzer walks *)
(* the statement tree with an agenda, one statement per step.              *)
(***************************************************************************)
EXTENDS Integers, Sequences, FiniteSets, TLC

VARIABLES
  source,             \* the document text
  tokens,             \* tokenize(source)
  pc,                 \* "parse", "analyze", "done" or "threw"
  i,                  \* parseTokens: current token index (from 0)
  hasError,           \* parseTokens: whether the current line has an error
  diagnostics,        \* parseTokens: syntax diagnostics
  stack,              \* parseTokens: statement lists under construction
  statements,         \* the statement list returned by parseTokens
  agenda,             \* analyzeStatements: statements still to visit
  symbolDefinitions,  \* analyzeStatements: the symbol table
  environment,        \* analyzeStatements: map from names to symbols
  semDiagnostics,     \* analyzeStatements: semantic diagnostics
  openDocuments,      \* the server: map from URI to open document
  incoming,           \* the server: the message onMessage is handling
  sent,               \* the server: what the handler has sent so far
  syn,                \* the compiler: the syntax model of parse
  found               \* a query: a position and what was found there

vars == <<source, tokens, pc, i, hasError, diagnostics, stack, statements,
          agenda, symbolDefinitions, environment, semDiagnostics,
          openDocuments, incoming, sent, syn, found>>

parserVars == <<i, hasError, diagnostics, stack>>
analyzerVars == <<agenda, symbolDefinitions, environment, semDiagnostics>>
serverVars == <<openDocuments, incoming, sent>>
compilerVars == <<syn, found>>

-----------------------------------------------------------------------------
(* Bounds *)

\* Largest number of lines of a source text.
MaxLines == 3

-----------------------------------------------------------------------------
(* Characters and texts *)

Digits == {"0", "1", "2", "3", "4", "5", "6", "7", "8", "9"}

Letters ==
  {"a", "b", "c", "d", "e", "f", "g", "h", "i", "j", "k", "l", "m",
   "n", "o", "p", "q", "r", "s", "t", "u", "v", "w", "x", "y", "z"}

\* \w of the regular expression: the characters around which \b is no boundary.
WordChars == Letters \cup Digits \cup {"_"}

IsWordChar(c) == c \in WordChars

\* [a-zA-Z0-9_\b]: inside a class \b is the backspace character.
NameChars == Letters \cup Digits \cup {"_"}

IsNameChar(c) == c \in NameChars

\* [-+*\/%=!<]
OperatorChars == {"-", "+", "*", "/", "%", "=", "!", "<"}

IsOperatorChar(c) == c \in OperatorChars

IsParenChar(c) == c \in {"(", ")"}

IsSpace(c) == c = " "

\* `.` matches every character but a line terminator.
IsLineTerminator(c) == c \in {"\n", "\r"}

\* String.prototype.trim removes these.
IsWhiteSpace(c) == c \in {" ", "\t", "\n", "\r", "\f"}

Position(line, character) == [line |-> line, character |-> character]

Range(start, end) == [start |-> start, end |-> end]

\* The text of the keywords.
KwLet == <<"l", "e", "t">>
KwSet == <<"s", "e", "t">>
KwEnd == <<"e", "n", "d">>
KwIf == <<"i", "f">>
KwWhile == <<"w", "h", "i", "l", "e">>

comparePositions(l, r) ==
  IF l.line # r.line
  THEN (IF l.line < r.line THEN -1 ELSE 1)
  ELSE (IF l.character < r.character THEN -1
        ELSE IF l.character > r.character THEN 1 ELSE 0)

-----------------------------------------------------------------------------
(* tokenize *)

\* source.split(/\r\n|\n/): the lines of the text, at least one.
RECURSIVE SplitFrom(_, _, _, _)
SplitFrom(text, p, current, acc) ==
  IF p > Len(text) THEN Append(acc, current)
  ELSE IF text[p] = "\r" /\ p < Len(text) /\ text[p + 1] = "\n"
    THEN SplitFrom(text, p + 2, <<>>, Append(acc, current))
  ELSE IF text[p] = "\n"
    THEN SplitFrom(text, p + 1, <<>>, Append(acc, current))
  ELSE SplitFrom(text, p + 1, Append(current, text[p]), acc)

SplitLines(text) == SplitFrom(text, 1, <<>>, <<>>)

\* lines[line].trim() === ""
IsBlank(lineText) == \A k \in 1..Len(lineText) : IsWhiteSpace(lineText[k])

\* Length of the longest run of characters of the class S from index p
\* (from 1): a greedy `[...]+`.
RECURSIVE RunLength(_, _, _)
RunLength(lineText, p, S) ==
  IF p <= Len(lineText) /\ lineText[p] \in S
  THEN 1 + RunLength(lineText, p + 1, S)
  ELSE 0

\* The match of tokenRegexp that starts exactly at index p (from 1), as the
\* matched alternative and the matched length; alternatives are tried in
\* the order they are written.
MatchAt(lineText, p) ==
  LET c == lineText[p]
      sign == IF c \in {"+", "-"} THEN 1 ELSE 0
      digits == RunLength(lineText, p + sign, Digits)
      after == p + sign + digits
      boundary == after > Len(lineText) \/ ~IsWordChar(lineText[after])
  IN  IF IsSpace(c)
        THEN [group |-> "space", length |-> RunLength(lineText, p, {" "})]
      ELSE IF digits > 0 /\ boundary
        THEN [group |-> "int", length |-> sign + digits]
      ELSE IF IsNameChar(c)
        THEN [group |-> "name", length |-> RunLength(lineText, p, NameChars)]
      ELSE IF IsParenChar(c)
        THEN [group |-> "paren", length |-> 1]
      ELSE IF IsOperatorChar(c)
        THEN [group |-> "operator",
              length |-> RunLength(lineText, p, OperatorChars)]
      ELSE IF ~IsLineTerminator(c)
        THEN [group |-> "invalid", length |-> 1]
      ELSE [group |-> "none", length |-> 0]

\* push: the token with its range computed from the current position.
push(type, value, line, character) ==
  [type |-> type, value |-> value,
   range |-> Range(Position(line, character),
                   Position(line, character + Len(value)))]

\* The type of the token made from a match.
TokenTypeOf(group, value) ==
  IF group = "int" THEN "int"
  ELSE IF group = "name"
    THEN (IF value = KwLet THEN "let"
          ELSE IF value = KwSet THEN "set"
          ELSE IF value = KwEnd THEN "end"
          ELSE IF value = KwIf THEN "if"
          ELSE IF value = KwWhile THEN "while"
          ELSE "name")
  ELSE IF group = "paren" THEN value[1]
  ELSE group

\* The inner loop of tokenize over one line: repeated tokenRegexp.exec from
\* lastIndex p - 1, then the eol token at the end of the line.
RECURSIVE TokenizeLine(_, _, _, _)
TokenizeLine(lineText, line, p, acc) ==
  IF p > Len(lineText)
  THEN Append(acc, push("eol", <<>>, line, Len(lineText)))
  ELSE LET m == MatchAt(lineText, p)
           value == SubSeq(lineText, p, p + m.length - 1)
       IN  IF m.group = "none"
             THEN TokenizeLine(lineText, line, p + 1, acc)
           ELSE IF m.group = "space"
             THEN TokenizeLine(lineText, line, p + m.length, acc)
           ELSE TokenizeLine(lineText, line, p + m.length,
                  Append(acc, push(TokenTypeOf(m.group, value), value,
                                   line, p - 1)))

\* TokenizeLines changed to count only the lines that have tokens.
RECURSIVE TokenizeLines_BlankUncounted(_, _, _)
TokenizeLines_BlankUncounted(lines, k, acc) ==
  IF k > Len(lines) THEN acc
  ELSE IF IsBlank(lines[k])
    THEN TokenizeLines_BlankUncounted(lines, k + 1, acc)
  ELSE TokenizeLines_BlankUncounted(lines, k + 1,
         TokenizeLine(lines[k],
                      Cardinality({ j \in 1..Len(acc) : acc[j].type = "eol" }),
                      1, acc))

RECURSIVE TokenizeLines(_, _, _)
TokenizeLines(lines, k, acc) ==
  IF k > Len(lines) THEN acc
  ELSE IF IsBlank(lines[k]) THEN TokenizeLines(lines, k + 1, acc)
  ELSE TokenizeLines(lines, k + 1, TokenizeLine(lines[k], k - 1, 1, acc))

tokenize(text) == TokenizeLines(SplitLines(text), 1, <<>>)

-----------------------------------------------------------------------------
(* parseTokens: the local state and the helpers *)

\* The local variables of parseTokens that its helpers read and write; threw
\* records an exception that left parseTokens.
ParserState(cursor, flag, diags) ==
  [i |-> cursor, hasError |-> flag, diagnostics |-> diags, threw |-> FALSE]

\* tokens[k] of the source, for an index k inside the array.
tokenAt(k) == tokens[k + 1]

\* tokens[k] is undefined: reading a property of it is a TypeError.
IsUndefined(k) == k >= Len(tokens)

\* The result of a helper that threw.
Thrown(ps) == [ps |-> [ps EXCEPT !.threw = TRUE], node |-> [type |-> "thrown"]]

\* NextEol changed to stop at a statement-starting keyword as well.
RECURSIVE NextEol_StopsAtKeyword(_)
NextEol_StopsAtKeyword(r) ==
  IF r < Len(tokens)
     /\ tokenAt(r).type \notin {"eol", "let", "set", "if", "while"}
  THEN NextEol_StopsAtKeyword(r + 1) ELSE r

\* The loop of skipLine: the index of the next eol token from r on.
RECURSIVE NextEol(_)
NextEol(r) ==
  IF r < Len(tokens) /\ tokenAt(r).type # "eol" THEN NextEol(r + 1) ELSE r

\* skipLine changed to leave the cursor where it was.
skipLine_KeepsCursor(ps) ==
  LET l == ps.i
      r == NextEol(l + 1)
  IN  IF l >= Len(tokens)
        THEN [range |-> tokenAt(Len(tokens) - 1).range, i |-> ps.i]
      ELSE IF tokenAt(ps.i).type = "eol"
        THEN [range |-> tokenAt(ps.i).range, i |-> ps.i]
      ELSE [range |-> Range(tokenAt(l).range.start, tokenAt(r - 1).range.end),
            i |-> l]

skipLine(ps) ==
  LET l == ps.i
      r == NextEol(l + 1)
  IN  IF l >= Len(tokens)
        THEN [range |-> tokenAt(Len(tokens) - 1).range, i |-> ps.i]
      ELSE IF tokenAt(ps.i).type = "eol"
        THEN [range |-> tokenAt(ps.i).range, i |-> ps.i]
      ELSE [range |-> Range(tokenAt(l).range.start, tokenAt(r - 1).range.end),
            i |-> r]

\* warn changed to report every warning, whatever the line already has.
warn_Always(ps, message, range) ==
  [ps EXCEPT !.hasError = TRUE,
             !.diagnostics = Append(@, [severity |-> "Warning",
                                        message |-> message,
                                        range |-> range])]

warn(ps, message, range) ==
  IF ps.hasError THEN ps
  ELSE [ps EXCEPT !.hasError = TRUE,
                  !.diagnostics = Append(@, [severity |-> "Warning",
                                             message |-> message,
                                             range |-> range])]

errorStatement(ps, message) ==
  LET skipped == skipLine(ps)
  IN  [ps |-> warn([ps EXCEPT !.i = skipped.i], message, skipped.range),
       node |-> [type |-> "error", message |-> message,
                 range |-> skipped.range]]

isAtomicExpression(token) == token.type = "int" \/ token.type = "name"

\* The error expression of parseExpression at the current token.
errorExpression(ps, message) ==
  [ps |-> warn(ps, message, tokenAt(ps.i).range),
   node |-> [type |-> "error", message |-> message,
             range |-> tokenAt(ps.i).range]]

\* The call branch of parseExpression, entered with the cursor after `(`.
parseCall(ps, callee) ==
  IF IsUndefined(ps.i) THEN Thrown(ps)
  ELSE LET hasArg == isAtomicExpression(tokenAt(ps.i))
           ps1 == IF hasArg THEN [ps EXCEPT !.i = @ + 1] ELSE ps
       IN  IF IsUndefined(ps1.i) THEN Thrown(ps1)
           ELSE IF tokenAt(ps1.i).type # ")"
             THEN errorExpression(ps1, "Expected ')'.")
           ELSE [ps |-> [ps1 EXCEPT !.i = @ + 1],
                 node |-> IF hasArg
                          THEN [type |-> "call", callee |-> callee,
                                arg |-> tokenAt(ps.i)]
                          ELSE [type |-> "call", callee |-> callee]]

parseExpression(ps) ==
  IF /\ ps.i + 2 < Len(tokens)
     /\ isAtomicExpression(tokenAt(ps.i))
     /\ tokenAt(ps.i + 1).type = "operator"
     /\ isAtomicExpression(tokenAt(ps.i + 2))
    THEN [ps |-> [ps EXCEPT !.i = @ + 3],
          node |-> [type |-> "binary", operator |-> tokenAt(ps.i + 1),
                    left |-> tokenAt(ps.i), right |-> tokenAt(ps.i + 2)]]
  ELSE IF /\ ps.i + 1 < Len(tokens)
          /\ isAtomicExpression(tokenAt(ps.i))
          /\ tokenAt(ps.i + 1).type = "("
    THEN parseCall([ps EXCEPT !.i = @ + 2], tokenAt(ps.i))
  ELSE IF IsUndefined(ps.i) THEN Thrown(ps)
  ELSE IF ~isAtomicExpression(tokenAt(ps.i))
    THEN errorExpression(ps, "Expected an expression.")
  ELSE [ps |-> [ps EXCEPT !.i = @ + 1],
        node |-> [type |-> "atomic", token |-> tokenAt(ps.i)]]

IsAssign(token) == token.type = "operator" /\ token.value = <<"=">>

parseLetStatement(ps) ==
  IF IsUndefined(ps.i) THEN Thrown(ps)
  ELSE IF tokenAt(ps.i).type # "let"
    THEN errorStatement(ps, "Expected 'let'.")
  ELSE IF IsUndefined(ps.i + 1) THEN Thrown(ps)
  ELSE IF tokenAt(ps.i + 1).type # "name"
    THEN errorStatement([ps EXCEPT !.i = @ + 1], "Expected a name.")
  ELSE IF IsUndefined(ps.i + 2) THEN Thrown(ps)
  ELSE IF ~IsAssign(tokenAt(ps.i + 2))
    THEN errorStatement([ps EXCEPT !.i = @ + 2], "Expected '='.")
  ELSE LET initExpression == parseExpression([ps EXCEPT !.i = @ + 3])
       IN  IF initExpression.ps.threw THEN initExpression
           ELSE [ps |-> initExpression.ps,
                 node |-> [type |-> "let", name |-> tokenAt(ps.i + 1),
                           init |-> initExpression.node]]

parseSetStatement(ps) ==
  IF IsUndefined(ps.i) THEN Thrown(ps)
  ELSE IF tokenAt(ps.i).type # "set"
    THEN errorStatement(ps, "Expected 'set'.")
  ELSE IF IsUndefined(ps.i + 1) THEN Thrown(ps)
  ELSE IF tokenAt(ps.i + 1).type # "name"
    THEN errorStatement([ps EXCEPT !.i = @ + 1], "Expected a name.")
  ELSE IF IsUndefined(ps.i + 2) THEN Thrown(ps)
  ELSE IF ~IsAssign(tokenAt(ps.i + 2))
    THEN errorStatement([ps EXCEPT !.i = @ + 2], "Expected '='.")
  ELSE LET right == parseExpression([ps EXCEPT !.i = @ + 3])
       IN  IF right.ps.threw THEN right
           ELSE [ps |-> right.ps,
                 node |-> [type |-> "set", left |-> tokenAt(ps.i + 1),
                           right |-> right.node]]

parseEndStatement(ps) ==
  IF IsUndefined(ps.i) \/ tokenAt(ps.i).type # "end"
    THEN errorStatement(ps, "Expected 'end'.")
  ELSE [ps |-> [ps EXCEPT !.i = @ + 1], node |-> [type |-> "end"]]

\* parseEol(statements): the parser state and the statement list afterwards.
parseEol(ps, list) ==
  IF IsUndefined(ps.i)
    THEN [ps |-> [ps EXCEPT !.threw = TRUE], statements |-> list]
  ELSE IF tokenAt(ps.i).type # "eol"
    THEN LET e == errorStatement(ps, "Expected an end of line.")
         IN  [ps |-> [e.ps EXCEPT !.i = @ + 1],
              statements |-> Append(list, e.node)]
  ELSE [ps |-> [ps EXCEPT !.i = @ + 1], statements |-> list]

\* statements.push(<statement>); parseEol(statements)
pushThenEol(parsed, list) ==
  IF parsed.ps.threw THEN [ps |-> parsed.ps, statements |-> list]
  ELSE parseEol(parsed.ps, Append(list, parsed.node))

\* parseBlock on a token that opens neither an `if` nor a `while` block.
parseBlock(ps, list) ==
  LET ps0 == [ps EXCEPT !.hasError = FALSE]
  IN  IF tokenAt(ps.i).type = "let"
        THEN pushThenEol(parseLetStatement(ps0), list)
      ELSE IF tokenAt(ps.i).type = "set"
        THEN pushThenEol(parseSetStatement(ps0), list)
      ELSE IF tokenAt(ps.i).type = "end"
        THEN [ps |-> [ps0 EXCEPT !.threw = TRUE], statements |-> list]
      ELSE pushThenEol(errorStatement(ps0, "Expected a statement."), list)

\* The head of parseIfBlock and parseWhileBlock, up to the call of
\* parseClause: the keyword, the condition and the end of the line.
parseBlockHeader(ps, list) ==
  LET ps0 == [ps EXCEPT !.hasError = FALSE, !.i = @ + 1]
      c == parseExpression(ps0)
      e == parseEol(c.ps, list)
  IN  IF c.ps.threw
        THEN [ps |-> c.ps, statements |-> list, condition |-> c.node]
      ELSE [ps |-> e.ps, statements |-> e.statements, condition |-> c.node]

\* The tail of an iteration of the loop of parseClause, after parseBlock.
clauseContinue(ps) ==
  IF ps.threw THEN ps
  ELSE IF IsUndefined(ps.i) THEN [ps EXCEPT !.threw = TRUE]
  ELSE IF tokenAt(ps.i).type = "eol" THEN [ps EXCEPT !.i = @ + 1]
  ELSE ps

-----------------------------------------------------------------------------
(* analyzeStatements: the local state and the helpers *)

\* The local variables of analyzeStatements.  The environment maps a name to
\* the index (from 1) in symbolDefinitions of the symbol object it holds.
AnalyzerState(symbols, env, diags) ==
  [symbolDefinitions |-> symbols, environment |-> env,
   diagnostics |-> diags, threw |-> FALSE]

NotDefinedMessage(name) == <<"'", name, "' is not defined.">>

\* defineName changed to keep the binding of a name that is already bound.
defineName_KeepsBinding(az, nameToken) ==
  IF nameToken.type # "name" THEN [az EXCEPT !.threw = TRUE]
  ELSE [az EXCEPT
          !.symbolDefinitions =
             Append(@, [type |-> "var", definitions |-> <<nameToken>>,
                        references |-> <<>>]),
          !.environment =
             IF nameToken.value \in DOMAIN @ THEN @
             ELSE (nameToken.value :> (Len(az.symbolDefinitions) + 1)) @@ @]

defineName(az, nameToken) ==
  IF nameToken.type # "name" THEN [az EXCEPT !.threw = TRUE]
  ELSE [az EXCEPT
          !.symbolDefinitions =
             Append(@, [type |-> "var", definitions |-> <<nameToken>>,
                        references |-> <<>>]),
          !.environment =
             (nameToken.value :> (Len(az.symbolDefinitions) + 1)) @@ @]

\* referName changed to record the reference a second time when the symbol
\* has references already.
referName_RecordsAgain(az, nameToken) ==
  IF nameToken.type # "name" THEN [az EXCEPT !.threw = TRUE]
  ELSE IF nameToken.value \notin DOMAIN az.environment
    THEN [az EXCEPT !.diagnostics =
            Append(@, [severity |-> "Warning",
                       message |-> NotDefinedMessage(nameToken.value),
                       range |-> nameToken.range,
                       source |-> "curage-lang lsp"])]
  ELSE [az EXCEPT
          !.symbolDefinitions[az.environment[nameToken.value]].references =
             IF @ = <<>> THEN Append(@, nameToken)
             ELSE Append(Append(@, nameToken), nameToken)]

referName(az, nameToken) ==
  IF nameToken.type # "name" THEN [az EXCEPT !.threw = TRUE]
  ELSE IF nameToken.value \notin DOMAIN az.environment
    THEN [az EXCEPT !.diagnostics =
            Append(@, [severity |-> "Warning",
                       message |-> NotDefinedMessage(nameToken.value),
                       range |-> nameToken.range,
                       source |-> "curage-lang lsp"])]
  ELSE [az EXCEPT
          !.symbolDefinitions[az.environment[nameToken.value]].references =
             Append(@, nameToken)]

analyzeToken(az, token) ==
  IF token.type = "name" THEN referName(az, token) ELSE az

analyzeExpression(az, expression) ==
  IF expression.type = "atomic" THEN analyzeToken(az, expression.token)
  ELSE IF expression.type = "binary"
    THEN analyzeToken(analyzeToken(az, expression.left), expression.right)
  ELSE az

\* analyzeStatement changed to make `set` declare its left-hand name.
analyzeStatement_SetDefines(az, statement) ==
  IF statement.type = "error" THEN az
  ELSE IF statement.type = "let"
    THEN LET az1 == analyzeExpression(az, statement.init)
         IN  IF statement.name.type = "name"
             THEN defineName(az1, statement.name) ELSE az1
  ELSE IF statement.type = "set"
    THEN defineName(analyzeExpression(az, statement.right), statement.left)
  ELSE IF statement.type = "end" THEN az
  ELSE IF statement.type = "if"
    THEN analyzeExpression(az, statement.condition)
  ELSE IF statement.type = "while"
    THEN analyzeExpression(az, statement.condition)
  ELSE [az EXCEPT !.threw = TRUE]

\* analyzeStatement without the recursive calls on the statements of a
\* block, which the caller visits next.
analyzeStatement(az, statement) ==
  IF statement.type = "error" THEN az
  ELSE IF statement.type = "let"
    THEN LET az1 == analyzeExpression(az, statement.init)
         IN  IF statement.name.type = "name"
             THEN defineName(az1, statement.name) ELSE az1
  ELSE IF statement.type = "set"
    THEN analyzeExpression(analyzeToken(az, statement.left), statement.right)
  ELSE IF statement.type = "end" THEN az
  ELSE IF statement.type = "if"
    THEN analyzeExpression(az, statement.condition)
  ELSE IF statement.type = "while"
    THEN analyzeExpression(az, statement.condition)
  ELSE [az EXCEPT !.threw = TRUE]

\* The statements analyzeStatement recurses into.
NestedStatements(statement) ==
  IF statement.type = "if" THEN statement.thenClause
  ELSE IF statement.type = "while" THEN statement.body
  ELSE <<>>

-----------------------------------------------------------------------------
(* Source texts *)

RECURSIVE JoinWith(_, _)
JoinWith(parts, separator) ==
  IF Len(parts) = 0 THEN <<>>
  ELSE IF Len(parts) = 1 THEN parts[1]
  ELSE parts[1] \o separator \o JoinWith(Tail(parts), separator)

Words(ws) == JoinWith(ws, <<" ">>)

\* The lines a source text is made of: correct statements, block headers
\* and `end`, and lines with each kind of syntax error.
LineShapes ==
  { Words(<<KwLet, <<"x">>, <<"=">>, <<"1">>>>),
    Words(<<KwLet, <<"y">>, <<"=">>, <<"x">>>>),
    Words(<<KwLet, <<"x">>, <<"=">>, <<"y">>>>),
    Words(<<KwLet, <<"x">>, <<"=">>, <<"x">>>>),
    Words(<<KwLet, <<"x">>, <<"=">>, <<"x", "(", "y", ")">>>>),
    Words(<<KwLet, <<"x">>, <<"=">>, <<"+">>>>),
    Words(<<<<"y">>>>),
    Words(<<KwLet>>),
    Words(<<KwLet, KwLet, <<"y">>, <<"=">>, <<"1">>>>),
    Words(<<KwSet, <<"x">>, <<"=">>, <<"y">>>>),
    Words(<<KwIf, <<"x">>>>),
    Words(<<KwIf>>),
    Words(<<KwWhile, <<"x">>, <<"+">>, <<"y">>>>),
    Words(<<KwEnd>>),
    Words(<<KwEnd, KwLet, <<"y">>>>) }

\* The lines of the texts used for the termination of the parser.
CursorLineShapes ==
  { Words(<<KwLet, <<"x">>, <<"=">>, <<"1">>>>),
    Words(<<KwLet, <<"x">>, <<"=">>, <<"+">>>>),
    Words(<<<<"y">>>>),
    Words(<<KwIf, <<"x">>>>),
    Words(<<KwIf>>),
    Words(<<KwWhile, <<"x">>, <<"+">>, <<"y">>>>),
    Words(<<KwEnd>>),
    Words(<<KwEnd, KwLet, <<"y">>>>) }

\* The texts of at most MaxLines lines of the given shapes.
TextsOf(shapes) ==
  UNION { { JoinWith(ls, <<"\n">>) : ls \in [1..n -> shapes] } :
          n \in 0..MaxLines }

Sources == TextsOf(LineShapes)

CursorSources == TextsOf(CursorLineShapes)

-----------------------------------------------------------------------------
(* The state machine *)

\* The server has no open document and handles no message; the compiler of
\* the semicolon syntax has not run.
Unused ==
  /\ openDocuments = <<>>
  /\ incoming = [method |-> "none"]
  /\ sent = <<>>
  /\ syn = [type |-> "none"]
  /\ found = [type |-> "none"]

InitFrom(texts) ==
  /\ source \in texts
  /\ tokens = tokenize(source)
  /\ pc = "parse"
  /\ i = 0
  /\ hasError = FALSE
  /\ diagnostics = <<>>
  /\ stack = <<[kind |-> "top", header |-> [condition |-> [type |-> "none"]],
                statements |-> <<>>]>>
  /\ statements = <<>>
  /\ agenda = <<>>
  /\ symbolDefinitions = <<>>
  /\ environment = <<>>
  /\ semDiagnostics = <<>>
  /\ Unused

Init == InitFrom(Sources)

\* The parser state held in the variables.
CurrentParser == ParserState(i, hasError, diagnostics)

\* The statement list the running loop appends to, and whether that loop
\* is the one of parseClause.
Top == stack[Len(stack)]
InClause == Len(stack) > 1

\* Store the parser state and the stack; an exception ends the run.
Update(ps, newStack) ==
  /\ i' = ps.i
  /\ hasError' = ps.hasError
  /\ diagnostics' = ps.diagnostics
  /\ stack' = newStack
  /\ pc' = IF ps.threw THEN "threw" ELSE "parse"
  /\ UNCHANGED <<source, tokens, statements, analyzerVars, serverVars,
                 compilerVars>>

WithTop(list) == [stack EXCEPT ![Len(stack)].statements = list]

\* parseTokens on an empty token list returns at once.
ParseNoTokens ==
  /\ pc = "parse"
  /\ Len(tokens) = 0
  /\ pc' = "analyze"
  /\ statements' = <<>>
  /\ agenda' = <<>>
  /\ UNCHANGED <<source, tokens, parserVars, symbolDefinitions, environment,
                 semDiagnostics, serverVars, compilerVars>>

\* TopLevelEol changed to continue the loop without moving the cursor.
TopLevelEol_NoAdvance ==
  /\ pc = "parse"
  /\ ~InClause
  /\ i < Len(tokens)
  /\ tokenAt(i).type = "eol"
  /\ Update(CurrentParser, stack)

\* parseTopLevel: an eol token is skipped.
TopLevelEol ==
  /\ pc = "parse"
  /\ ~InClause
  /\ i < Len(tokens)
  /\ tokenAt(i).type = "eol"
  /\ Update([CurrentParser EXCEPT !.i = @ + 1], stack)

\* parseTopLevel: an `end` token outside of a block.
TopLevelEnd ==
  /\ pc = "parse"
  /\ ~InClause
  /\ i < Len(tokens)
  /\ tokenAt(i).type = "end"
  /\ LET e == errorStatement(CurrentParser, "Unexpected 'end'.")
         r == parseEol(e.ps, Append(Top.statements, e.node))
     IN  Update(r.ps, WithTop(r.statements))

\* parseBlock called by parseTopLevel or parseClause, on a let, a set or an
\* erroneous statement.
ParseStatement ==
  /\ pc = "parse"
  /\ i < Len(tokens)
  /\ tokenAt(i).type \notin {"if", "while"}
  /\ IF InClause THEN tokenAt(i).type # "end"
                 ELSE tokenAt(i).type \notin {"eol", "end"}
  /\ LET r == parseBlock(CurrentParser, Top.statements)
     IN  Update(IF InClause THEN clauseContinue(r.ps) ELSE r.ps,
                WithTop(r.statements))

\* parseBlock on `if` or `while`: the header, then parseClause starts.
OpenBlock(kind) ==
  /\ pc = "parse"
  /\ i < Len(tokens)
  /\ tokenAt(i).type = kind
  /\ LET h == parseBlockHeader(CurrentParser, Top.statements)
         locals == IF kind = "if"
                   THEN [ifToken |-> tokenAt(i), condition |-> h.condition]
                   ELSE [condition |-> h.condition]
     IN  Update(h.ps,
                IF h.ps.threw THEN stack
                ELSE Append(WithTop(h.statements),
                            [kind |-> kind, header |-> locals,
                             statements |-> <<>>]))

OpenIfBlock == OpenBlock("if")

OpenWhileBlock == OpenBlock("while")

\* The node parseIfBlock or parseWhileBlock makes of a finished clause.
BlockNode(frame) ==
  IF frame.kind = "if"
  THEN [type |-> "if", ifToken |-> frame.header.ifToken,
        condition |-> frame.header.condition, thenClause |-> frame.statements]
  ELSE [type |-> "while", condition |-> frame.header.condition,
        body |-> frame.statements]

\* The loop of parseClause ends; parseIfBlock or parseWhileBlock pushes the
\* block and the result of parseEndStatement, and the enclosing loop
\* continues.
CloseClause ==
  /\ pc = "parse"
  /\ InClause
  /\ IF i < Len(tokens) THEN tokenAt(i).type = "end" ELSE TRUE
  /\ LET e == parseEndStatement(CurrentParser)
         outer == SubSeq(stack, 1, Len(stack) - 1)
         list == outer[Len(outer)].statements \o <<BlockNode(Top), e.node>>
     IN  Update(IF Len(outer) > 1 THEN clauseContinue(e.ps) ELSE e.ps,
                [outer EXCEPT ![Len(outer)].statements = list])

\* parseTopLevel returns; analyzeSource passes the statements on to
\* analyzeStatements.
ParseReturn ==
  /\ pc = "parse"
  /\ Len(tokens) > 0
  /\ ~InClause
  /\ i >= Len(tokens)
  /\ pc' = "analyze"
  /\ statements' = Top.statements
  /\ agenda' = Top.statements
  /\ UNCHANGED <<source, tokens, parserVars, symbolDefinitions, environment,
                 semDiagnostics, serverVars, compilerVars>>

CurrentAnalyzer ==
  AnalyzerState(symbolDefinitions, environment, semDiagnostics)

\* analyzeStatements: one call of analyzeStatement.
AnalyzeStep ==
  /\ pc = "analyze"
  /\ agenda # <<>>
  /\ LET az == analyzeStatement(CurrentAnalyzer, Head(agenda))
     IN  /\ symbolDefinitions' = az.symbolDefinitions
         /\ environment' = az.environment
         /\ semDiagnostics' = az.diagnostics
         /\ agenda' = NestedStatements(Head(agenda)) \o Tail(agenda)
         /\ pc' = IF az.threw THEN "threw" ELSE "analyze"
  /\ UNCHANGED <<source, tokens, parserVars, statements, serverVars,
                 compilerVars>>

\* analyzeStatements returns the semantic model.
AnalyzeReturn ==
  /\ pc = "analyze"
  /\ agenda = <<>>
  /\ pc' = "done"
  /\ UNCHANGED <<source, tokens, parserVars, statements, analyzerVars,
                 serverVars, compilerVars>>

Next ==
  \/ ParseNoTokens
  \/ TopLevelEol
  \/ TopLevelEnd
  \/ ParseStatement
  \/ OpenIfBlock
  \/ OpenWhileBlock
  \/ CloseClause
  \/ ParseReturn
  \/ AnalyzeStep
  \/ AnalyzeReturn

Spec == Init /\ [][Next]_vars

\* The same machine on the texts of CursorSources.  A run is one synchronous
\* call of analyzeSource: a step that can be taken is taken.
CursorSpec == InitFrom(CursorSources) /\ [][Next]_vars /\ WF_vars(Next)

-----------------------------------------------------------------------------
(* Vocabulary of the properties *)

\* The statements of a tree in the order analyzeStatements visits them.
RECURSIVE Flatten(_)
Flatten(list) ==
  IF list = <<>> THEN <<>>
  ELSE <<Head(list)>> \o Flatten(NestedStatements(Head(list)))
                      \o Flatten(Tail(list))

\* The operand tokens of an expression, in source order.
ExpressionTokens(expression) ==
  IF expression.type = "atomic" THEN <<expression.token>>
  ELSE IF expression.type = "binary"
    THEN <<expression.left, expression.right>>
  ELSE IF expression.type = "call"
    THEN (IF "arg" \in DOMAIN expression
          THEN <<expression.callee, expression.arg>>
          ELSE <<expression.callee>>)
  ELSE <<>>

\* The expression of a statement: initializer, right-hand side or condition.
StatementExpression(statement) ==
  IF statement.type = "let" THEN statement.init
  ELSE IF statement.type = "set" THEN statement.right
  ELSE IF statement.type \in {"if", "while"} THEN statement.condition
  ELSE [type |-> "none"]

\* The name tokens in expression position of a statement.
NamesUsed(statement) ==
  LET ts == ExpressionTokens(StatementExpression(statement))
  IN  { ts[k] : k \in { j \in 1..Len(ts) : ts[j].type = "name" } }

Range1(seq) == { seq[k] : k \in 1..Len(seq) }

IsPrefix(short, long) ==
  Len(short) <= Len(long) /\ SubSeq(long, 1, Len(short)) = short

\* The name a symbol was declared with.
SymbolName(symbol) == symbol.definitions[1].value

\* The symbols declared with the name, oldest first.
SymbolsNamed(symbols, name) ==
  { k \in 1..Len(symbols) : SymbolName(symbols[k]) = name }

\* How often a token occurs in the reference lists of the symbols.
ReferenceCount(symbols, token) ==
  Cardinality({ p \in UNION { {k} \X (1..Len(symbols[k].references)) :
                              k \in 1..Len(symbols) } :
                symbols[p[1]].references[p[2]] = token })

\* How many "is not defined" diagnostics a token has.
NotDefinedCount(diags, token) ==
  Cardinality({ k \in 1..Len(diags) :
                /\ diags[k].range = token.range
                /\ diags[k].message = NotDefinedMessage(token.value) })

\* An analysis step is about to visit this statement.
Visiting == IF pc = "analyze" /\ agenda # <<>> THEN Head(agenda)
            ELSE [type |-> "none"]

Returned == pc \in {"analyze", "done"}

-----------------------------------------------------------------------------
(* C1: shadowing *)

ShadowingSource ==
  JoinWith(<<Words(<<KwLet, <<"x">>, <<"=">>, <<"1">>>>),
             Words(<<KwLet, <<"y">>, <<"=">>, <<"x">>>>),
             Words(<<KwLet, <<"x">>, <<"=">>, <<"y">>>>)>>, <<"\n">>)

\* What one call of analyzeStatement may do to the symbol table.
C1_Step ==
  LET old == symbolDefinitions
      new == symbolDefinitions'
      st == Visiting
      declares == st.type = "let" /\ st.name.type = "name"
  IN  pc = "analyze" /\ agenda # <<>> =>
        /\ Len(new) = Len(old) + (IF declares THEN 1 ELSE 0)
        /\ declares => new[Len(new)].definitions = <<st.name>>
        /\ \A k \in 1..Len(old) :
             /\ new[k].definitions = old[k].definitions
             /\ IsPrefix(old[k].references, new[k].references)
             /\ \A j \in (Len(old[k].references) + 1)..Len(new[k].references) :
                  LET t == new[k].references[j]
                  IN  /\ SymbolName(old[k]) = t.value
                      /\ \A k2 \in SymbolsNamed(old, t.value) : k2 <= k
             /\ (\E k2 \in SymbolsNamed(old, SymbolName(old[k])) : k2 > k)
                  => new[k].references = old[k].references

\* C1: every `let` with a name creates a new symbol; a resolved reference is
\* appended to the symbol of the most recent preceding `let` of that name;
\* the reference list of a re-declared symbol never grows again.
C1_Shadowing == [][C1_Step]_vars

\* The documented example: two x symbols, the first with exactly the
\* reference on the second line, the second with none.
C1_Witness ==
  /\ pc = "done"
  /\ source = ShadowingSource
  /\ Len(symbolDefinitions) = 3
  /\ SymbolsNamed(symbolDefinitions, <<"x">>) = {1, 3}
  /\ Len(symbolDefinitions[1].references) = 1
  /\ symbolDefinitions[1].references[1].range.start = Position(1, 8)
  /\ symbolDefinitions[3].references = <<>>

-----------------------------------------------------------------------------
(* C2: the initializer is resolved before the name is bound *)

\* C2 as claimed: in the step that visits a `let`, every use of the declared
\* name in the initializer goes to the symbol bound before, or gets exactly one
\* diagnostic at that use; the declared symbol is created with no references.
C2_InitBeforeBinding ==
  [][ LET st == Visiting
          n == st.name.value
      IN  st.type = "let" =>
            /\ Len(symbolDefinitions') = Len(symbolDefinitions) + 1
            /\ symbolDefinitions'[Len(symbolDefinitions')].definitions
                 = <<st.name>>
            /\ symbolDefinitions'[Len(symbolDefinitions')].references = <<>>
            /\ \A t \in { u \in NamesUsed(st) : u.value = n } :
                 IF n \in DOMAIN environment
                 THEN /\ t \in Range1(symbolDefinitions'[environment[n]]
                                        .references)
                      /\ NotDefinedCount(semDiagnostics', t) = 0
                 ELSE /\ ReferenceCount(symbolDefinitions', t) = 0
                      /\ NotDefinedCount(semDiagnostics', t) = 1 ]_vars

-----------------------------------------------------------------------------
(* C3: one lookup for every name in expression position *)

\* C3 as claimed: in the semantic model every name token in expression
\* position is a reference of exactly one symbol or has exactly one
\* "is not defined" diagnostic, never both.
C3_EveryNameLookedUp ==
  pc = "done" =>
    \A k \in 1..Len(Flatten(statements)) :
      \A t \in NamesUsed(Flatten(statements)[k]) :
        ReferenceCount(symbolDefinitions, t)
          + NotDefinedCount(semDiagnostics, t) = 1

-----------------------------------------------------------------------------
(* C4: `set` adds no symbol *)

\* The number of let statements with a name token in a statement list.
CountLets(list) ==
  Cardinality({ k \in 1..Len(list) :
                list[k].type = "let" /\ list[k].name.type = "name" })

C4_Final ==
  pc = "done" =>
    /\ Len(symbolDefinitions) = CountLets(Flatten(statements))
    /\ \A k \in 1..Len(symbolDefinitions) :
         Len(symbolDefinitions[k].definitions) = 1
    /\ \A k \in 1..Len(Flatten(statements)) :
         LET st == Flatten(statements)[k]
         IN  st.type = "set" =>
               ReferenceCount(symbolDefinitions, st.left)
                 + NotDefinedCount(semDiagnostics, st.left) = 1

C4_Step ==
  LET st == Visiting
      n == st.left.value
  IN  st.type = "set" =>
        /\ Len(symbolDefinitions') = Len(symbolDefinitions)
        /\ environment' = environment
        /\ IF n \in DOMAIN environment
           THEN LET before == symbolDefinitions[environment[n]].references
                    after == symbolDefinitions'[environment[n]].references
                IN  /\ Len(after) > Len(before)
                    /\ after[Len(before) + 1] = st.left
                    /\ NotDefinedCount(semDiagnostics', st.left) = 0
           ELSE /\ ReferenceCount(symbolDefinitions', st.left) = 0
                /\ NotDefinedCount(semDiagnostics', st.left) = 1

\* C4: the symbols are exactly the named `let` statements, nested ones
\* included, each with one definition token; the left-hand name of a `set`
\* becomes a reference of the symbol bound to it, or one diagnostic.
C4_SetAddsNoSymbol == [][C4_Step]_vars /\ []C4_Final

\* A `set` of a declared name and a `set` of an undeclared one, analysed.
C4_Witness ==
  /\ pc = "done"
  /\ Len(statements) = 3
  /\ statements[1].type = "set"
  /\ statements[2].type = "let"
  /\ statements[3].type = "set"
  /\ Len(symbolDefinitions) = 1
  /\ symbolDefinitions[1].references = <<statements[3].left>>
  /\ NotDefinedCount(semDiagnostics, statements[1].left) = 1

-----------------------------------------------------------------------------
(* C5: parsing never throws *)

\* C5 as claimed: no run of parseTokens(tokenize(source)) ends in an
\* exception.
C5_NeverThrows == pc # "threw"

-----------------------------------------------------------------------------
(* C6: a block left open at the end of the input *)

LastTokenRange == tokens[Len(tokens)].range

IsExpectedEnd(node) ==
  node.type = "error" /\ node.message = "Expected 'end'."

HasExpectedEndWarning(diags) ==
  \E k \in 1..Len(diags) :
    /\ diags[k].message = "Expected 'end'."
    /\ diags[k].severity = "Warning"
    /\ diags[k].range = LastTokenRange

\* C6 as claimed: a step of the parser inside a block never ends in an
\* exception, and when the cursor is at the end of the tokens inside a block
\* the next step appends the block, with the body parsed so far, and an error
\* statement to the enclosing list and the diagnostics hold the warning at
\* the last token.
C6_OpenBlockAtEnd ==
  [][ pc = "parse" /\ InClause =>
        /\ pc' # "threw"
        /\ i >= Len(tokens) =>
             LET list == stack'[Len(stack')].statements
             IN  /\ Len(stack') = Len(stack) - 1
                 /\ Len(list) >= 2
                 /\ list[Len(list) - 1] = BlockNode(Top)
                 /\ IsExpectedEnd(list[Len(list)])
                 /\ HasExpectedEndWarning(diagnostics') ]_vars

-----------------------------------------------------------------------------
(* C7: the cursor advances *)

\* Every iteration of the loops of parseTopLevel and parseClause starts with
\* one of the steps that do not pop the stack; the step that pops it ends an
\* iteration of the enclosing loop.
C7_Step ==
  pc = "parse" /\ pc' \in {"parse", "threw"} =>
    /\ i' >= i
    /\ pc' = "parse" /\ Len(stack') >= Len(stack) => i' > i

\* C7: each iteration of the two loops strictly increases the cursor, the
\* cursor never decreases, and parsing stops, by returning or by the
\* exception of C5, with the cursor at the end of the tokens.
C7_CursorAdvances ==
  /\ [][C7_Step]_vars
  /\ [][i' >= i]_vars
  /\ <>(pc # "parse")
  /\ [](pc # "parse" => i = Len(tokens))

\* The parser has returned from a text with a block, an erroneous line and a
\* blank line.
C7_Witness ==
  /\ pc = "analyze"
  /\ i = Len(tokens)
  /\ Len(tokens) >= 6
  /\ \E k \in 1..Len(statements) : statements[k].type = "while"
  /\ \E k \in 1..Len(statements) : statements[k].type = "error"

-----------------------------------------------------------------------------
(* C8: at most one syntax diagnostic per line *)

DiagnosticsOnLine(diags, line) ==
  { k \in 1..Len(diags) : diags[k].range.start.line = line }

\* C8: the syntax diagnostics the parser returns hold at most one diagnostic
\* that starts on any given line.
C8_OnePerLine ==
  Returned =>
    \A k \in 1..Len(diagnostics) :
      Cardinality(DiagnosticsOnLine(diagnostics,
                                    diagnostics[k].range.start.line)) = 1

\* A line with an error expression and an error statement, a line where a
\* statement starts after an `end`, and the end-of-input diagnostic.
C8_Witness ==
  /\ pc = "done"
  /\ source = JoinWith(<<Words(<<KwLet, <<"x">>, <<"=">>, <<"+">>>>),
                         Words(<<KwIf, <<"x">>>>),
                         Words(<<KwEnd, KwLet, <<"y">>>>)>>, <<"\n">>)
  /\ Len(statements) = 5
  /\ statements[1].init.type = "error"
  /\ statements[2].type = "error"
  /\ statements[4].type = "end"
  /\ statements[5].type = "error"
  /\ Len(diagnostics) = 2
  /\ diagnostics[1].range.start.line = 0
  /\ diagnostics[2].range.start.line = 2

-----------------------------------------------------------------------------
(* C9: every line with an error node has its diagnostic *)

\* The error nodes of a statement list: error statements and the error
\* expressions of the other statements.
ErrorNodes(list) ==
  { list[k] : k \in { j \in 1..Len(list) : list[j].type = "error" } }
  \cup { StatementExpression(list[k]) :
         k \in { j \in 1..Len(list) :
                 StatementExpression(list[j]).type = "error" } }

\* C9 as claimed: every line of an error node of the returned tree has
\* exactly one syntax diagnostic.
C9_ErrorNodeHasDiagnostic ==
  Returned =>
    \A e \in ErrorNodes(Flatten(statements)) :
      Cardinality(DiagnosticsOnLine(diagnostics, e.range.start.line)) = 1

-----------------------------------------------------------------------------
(* C10: where parsing resumes after an error statement *)

StatementKeywords == {"let", "set", "if", "while"}

ErrorStatements(list) ==
  { list[k] : k \in { j \in 1..Len(list) : list[j].type = "error" } }

\* The tokens whose start lies in the range [start, end) of a node.
TokensWithin(range) ==
  { k \in 1..Len(tokens) :
      /\ comparePositions(range.start, tokens[k].range.start) <= 0
      /\ comparePositions(tokens[k].range.start, range.end) < 0 }

\* The tokens of the line of a range from the start of the range on, eol
\* excluded.
RestOfLine(range) ==
  { k \in 1..Len(tokens) :
      /\ tokens[k].type # "eol"
      /\ tokens[k].range.start.line = range.start.line
      /\ comparePositions(range.start, tokens[k].range.start) <= 0 }

\* The error statements that are members of the lists under construction;
\* a new error statement is appended to one of these lists.
StackErrors(frames) ==
  UNION { ErrorStatements(frames[k].statements) : k \in 1..Len(frames) }

\* C10 as claimed: no statement-starting keyword is swallowed into the range
\* of an error statement.
C10_ResumesAtKeyword ==
  Returned =>
    \A e \in ErrorStatements(Flatten(statements)) :
      \A k \in TokensWithin(e.range) : tokens[k].type \notin StatementKeywords

\* C10 amended: an error statement swallows the rest of its line, keywords
\* included, and the step that makes one leaves the cursor right after an
\* end-of-line marker or at the end of the input.
C10_ResumesAtEol ==
  /\ [](pc = "done" =>
         \A e \in ErrorStatements(Flatten(statements)) :
           \A k \in RestOfLine(e.range) :
             comparePositions(tokens[k].range.end, e.range.end) <= 0)
  /\ [][ pc = "parse" /\ pc' = "parse"
           /\ ~(StackErrors(stack') \subseteq StackErrors(stack))
         => i' = Len(tokens) \/ tokenAt(i' - 1).type = "eol" ]_vars

\* `let let y = 1`: one error statement from the second `let` to the end of
\* the line, and no let statement.
C10_Witness ==
  /\ pc = "done"
  /\ source = Words(<<KwLet, KwLet, <<"y">>, <<"=">>, <<"1">>>>)
  /\ Len(statements) = 1
  /\ statements[1].type = "error"
  /\ statements[1].range = Range(Position(0, 4), Position(0, 13))
  /\ symbolDefinitions = <<>>

-----------------------------------------------------------------------------
(* tokenize on arbitrary short texts *)

\* Largest number of characters of a text given to tokenize alone.
MaxChars == 4

\* One character of each class of tokenRegexp, a character of no class, the
\* line terminators and a tab.
LexChars == {" ", "x", "1", "+", ">", "(", "\n", "\r", "\t"}

LexTexts == UNION { [1..n -> LexChars] : n \in 0..MaxChars }

LexInit ==
  /\ source \in LexTexts
  /\ tokens = <<>>
  /\ pc = "lex"
  /\ i = 0
  /\ hasError = FALSE
  /\ diagnostics = <<>>
  /\ stack = <<>>
  /\ statements = <<>>
  /\ agenda = <<>>
  /\ symbolDefinitions = <<>>
  /\ environment = <<>>
  /\ semDiagnostics = <<>>
  /\ Unused

\* A call of tokenize(source), as testTokenize makes it.
Tokenize ==
  /\ pc = "lex"
  /\ tokens' = tokenize(source)
  /\ pc' = "lexed"
  /\ UNCHANGED <<source, parserVars, statements, analyzerVars, serverVars,
                 compilerVars>>

LexSpec == LexInit /\ [][Tokenize]_vars

\* The characters of the token in its line of the text.
TokenSlice(text, token) ==
  SubSeq(SplitLines(text)[token.range.start.line + 1],
         token.range.start.character + 1, token.range.end.character)

\* The indexes (from 0) of the lines of the text that are not blank.
NonBlankLines(text) ==
  { l \in 0..(Len(SplitLines(text)) - 1) : ~IsBlank(SplitLines(text)[l + 1]) }

-----------------------------------------------------------------------------
(* C11: the ranges of the tokens *)

\* C11: every token lies on one line of the text, its range is as long as
\* its text and holds that text, every token starts after the start of the
\* token before it and not before its end, and the lines that have tokens
\* are the lines of the text that are not blank, under their index in the
\* text.
C11_TokenRanges ==
  pc = "lexed" =>
    /\ \A k \in 1..Len(tokens) :
         LET t == tokens[k]
         IN  /\ t.range.start.line = t.range.end.line
             /\ t.range.start.line \in NonBlankLines(source)
             /\ t.range.end.character
                  = t.range.start.character + Len(t.value)
             /\ t.range.end.character
                  <= Len(SplitLines(source)[t.range.start.line + 1])
             /\ TokenSlice(source, t) = t.value
    /\ \A k \in 2..Len(tokens) :
         /\ comparePositions(tokens[k - 1].range.start,
                             tokens[k].range.start) < 0
         /\ comparePositions(tokens[k - 1].range.end,
                             tokens[k].range.start) <= 0
    /\ { tokens[k].range.start.line : k \in 1..Len(tokens) }
         = NonBlankLines(source)

\* A text whose second line is blank: the token of the third line has line
\* index 2.
C11_Witness ==
  /\ pc = "lexed"
  /\ source = <<"x", "\n", "\n", "1">>
  /\ Len(tokens) = 4
  /\ tokens[3].type = "int"
  /\ tokens[3].range = Range(Position(2, 0), Position(2, 1))

-----------------------------------------------------------------------------
(* C13: tokenize covers every character *)

\* The tokens of a line that cover the character at index c (from 0).
Covering(line, c) ==
  { k \in 1..Len(tokens) :
      /\ tokens[k].range.start.line = line
      /\ tokens[k].range.start.character <= c
      /\ c < tokens[k].range.end.character }

\* The characters that start a token of another kind than `invalid`.
ClassChars == NameChars \cup OperatorChars \cup {"(", ")", " "}

\* C13 as claimed: a match of tokenRegexp is never empty, so that the throw
\* at the end of the loop is not reached; and on every line that is not blank
\* every character but the space is covered by exactly one token, which for a
\* character of no token class is an `invalid` token of that one character.
C13_EveryCharacterCovered ==
  pc = "lexed" =>
    \A l \in NonBlankLines(source) :
      LET lineText == SplitLines(source)[l + 1]
      IN  \A c \in 1..Len(lineText) :
            /\ MatchAt(lineText, c).group # "none"
                 => MatchAt(lineText, c).length >= 1
            /\ lineText[c] # " " =>
                 /\ Cardinality(Covering(l, c - 1)) = 1
                 /\ lineText[c] \notin ClassChars =>
                      \A k \in Covering(l, c - 1) :
                        /\ tokens[k].type = "invalid"
                        /\ tokens[k].value = <<lineText[c]>>

-----------------------------------------------------------------------------
(* The compiler of the semicolon syntax: positions and tokenize *)

Pos(y, x) == [y |-> y, x |-> x]

zeroPos == Pos(0, 0)

comparePos(l, r) ==
  IF l.y # r.y
  THEN (IF l.y < r.y THEN -1 ELSE 1)
  ELSE (IF l.x < r.x THEN -1 ELSE IF l.x > r.x THEN 1 ELSE 0)

\* appendPos changed to add the columns on every line.
appendPos_ColumnsAdded(l, r) == Pos(l.y + r.y, l.x + r.x)

appendPos(l, r) ==
  IF r.y >= 1 THEN Pos(l.y + r.y, r.x) ELSE Pos(l.y, l.x + r.x)

\* The recursive call swaps the arguments once.
distancePos(l, r) ==
  LET c == comparePos(l, r)
      lo == IF c > 0 THEN r ELSE l
      hi == IF c > 0 THEN l ELSE r
  IN  IF c = 0 THEN zeroPos
      ELSE IF lo.y < hi.y THEN Pos(hi.y - lo.y, hi.x)
      ELSE Pos(0, hi.x - lo.x)

posToText(p) == [k \in 1..(p.y + p.x) |-> IF k <= p.y THEN "\n" ELSE " "]

\* [()=;]
PunctuationChars == {"(", ")", "=", ";"}

\* The match of /( +)|([+-]?[0-9]+)|([a-zA-Z0-9_]+)|([()=;])|(.)/ that
\* starts exactly at index p (from 1).
OffsetMatchAt(lineText, p) ==
  LET c == lineText[p]
      sign == IF c \in {"+", "-"} THEN 1 ELSE 0
      digits == RunLength(lineText, p + sign, Digits)
  IN  IF IsSpace(c)
        THEN [group |-> "space", length |-> RunLength(lineText, p, {" "})]
      ELSE IF digits > 0
        THEN [group |-> "integer", length |-> sign + digits]
      ELSE IF c \in WordChars
        THEN [group |-> "name", length |-> RunLength(lineText, p, WordChars)]
      ELSE IF c \in PunctuationChars
        THEN [group |-> "punctuation", length |-> 1]
      ELSE IF ~IsLineTerminator(c)
        THEN [group |-> "invalid", length |-> 1]
      ELSE [group |-> "none", length |-> 0]

\* The local variables of tokenize: the tokens, previousPos and the column
\* x of the last match.
OffsetState(list, previousPos, x) ==
  [tokens |-> list, previousPos |-> previousPos, x |-> x]

\* push: the token with the distance from the end of the token before it.
pushOffset(st, type, value, y) ==
  [st EXCEPT
     !.tokens = Append(@, [type |-> type, value |-> value,
                           offset |-> distancePos(st.previousPos,
                                                  Pos(y, st.x))]),
     !.previousPos = Pos(y, st.x + Len(value))]

\* The inner loop of tokenize over one line; a space and an invalid
\* character make no token.
RECURSIVE OffsetLine(_, _, _, _)
OffsetLine(lineText, y, p, st) ==
  IF p > Len(lineText) THEN st
  ELSE LET m == OffsetMatchAt(lineText, p)
           value == SubSeq(lineText, p, p + m.length - 1)
           st1 == [st EXCEPT !.x = p - 1]
       IN  IF m.group = "none" THEN OffsetLine(lineText, y, p + 1, st)
           ELSE IF m.group \in {"space", "invalid"}
             THEN OffsetLine(lineText, y, p + m.length, st1)
           ELSE OffsetLine(lineText, y, p + m.length,
                  pushOffset(st1,
                             IF m.group = "punctuation" THEN value[1]
                             ELSE IF value = KwLet THEN "let"
                             ELSE m.group,
                             value, y))

RECURSIVE OffsetLines(_, _, _)
OffsetLines(lines, k, st) ==
  IF k > Len(lines) THEN st
  ELSE OffsetLines(lines, k + 1, OffsetLine(lines[k], k - 1, 1, st))

\* tokenize of the compiler: after the loop y is lines.length and x is the
\* column of the last match, and the eof token is pushed there.
tokenizeOffsets(text) ==
  LET lines == SplitLines(text)
      st == OffsetLines(lines, 1, OffsetState(<<>>, zeroPos, 0))
  IN  pushOffset(st, "eof", <<>>, Len(lines)).tokens

-----------------------------------------------------------------------------
(* The compiler of the semicolon syntax: parse and findTokenAt *)

\* The value of a variable that holds no node.
Undefined == [type |-> "undefined"]

\* The value of a step that is taken once: S holds that value and no other.
The(S) == CHOOSE value \in S : TRUE

\* `state` and `issues` of parse.
CstState(index, y, x, issues) ==
  [index |-> index, y |-> y, x |-> x, issues |-> issues]

cstToken(st) == tokens[st.index + 1]

isEOF(st) == cstToken(st).type = "eof"

nextToken(st) == IF isEOF(st) THEN Undefined ELSE cstToken(st)

\* end: the node of the children pushed since start(type).
endNode(type, children, startPos, st) ==
  [type |-> type, children |-> children,
   span |-> distancePos(startPos, Pos(st.y, st.x)), startPos |-> startPos]

\* skip: the token becomes a child of the node under construction, with a
\* span that holds its offset and its text.
skip(st, children) ==
  IF isEOF(st) THEN [st |-> st, children |-> children]
  ELSE LET token == cstToken(st)
           span == appendPos(token.offset, Pos(0, Len(token.value)))
           p == appendPos(Pos(st.y, st.x), span)
       IN  [st |-> [st EXCEPT !.y = p.y, !.x = p.x, !.index = @ + 1],
            children |-> Append(children,
                                [type |-> "token", token |-> token,
                                 children |-> <<>>, span |-> span])]

issue(st, text) ==
  LET t == cstToken(st)
      nextPos == appendPos(Pos(st.y, st.x), t.offset)
      nextSpan == appendPos(nextPos, Pos(0, Len(t.value)))
  IN  [st EXCEPT !.issues = Append(@, [message |-> text,
                                       range |-> <<nextPos, nextSpan>>])]

skipPunctuation(st, children, type) ==
  IF nextToken(st).type = type THEN skip(st, children)
  ELSE [st |-> issue(st, <<"Expected '", type, "'.">>),
        children |-> children]

\* The loop of skipOverStatement.
RECURSIVE SkipToStatement(_, _)
SkipToStatement(st, children) ==
  IF isEOF(st) THEN [st |-> st, children |-> children]
  ELSE IF nextToken(st).type = ";" THEN skip(st, children)
  ELSE IF nextToken(st).type = "let" THEN [st |-> st, children |-> children]
  ELSE The({ SkipToStatement(r.st, r.children) :
               r \in {skip(st, children)} })

skipOverStatement(st, children) ==
  IF nextToken(st).type = ";" THEN skip(st, children)
  ELSE SkipToStatement(issue(st, <<"Expected ';'.">>), children)

\* skipPunctuation and skipOverStatement on the node under construction.
skipPunctuationOf(r, type) ==
  The({ skipPunctuation(q.st, q.children, type) : q \in {r} })

skipOverStatementOf(r) ==
  The({ skipOverStatement(q.st, q.children) : q \in {r} })

\* push(node) on the node under construction, after the parser that made
\* the node has moved the state.
pushNode(r, parsed) ==
  The({ [st |-> p.st, children |-> Append(r.children, p.node)] :
        p \in {parsed} })

\* tryParseNumber and tryParseName.
tryParseToken(st, type) ==
  IF nextToken(st).type # type THEN [st |-> st, node |-> Undefined]
  ELSE LET r == skip(st, <<>>)
       IN  [st |-> r.st,
            node |-> endNode(type, r.children, Pos(st.y, st.x), r.st)]

tryParseNumber(st) == tryParseToken(st, "integer")

tryParseName(st) == tryParseToken(st, "name")

parseAtom(st) ==
  IF tryParseNumber(st).node # Undefined THEN tryParseNumber(st)
  ELSE IF tryParseName(st).node # Undefined THEN tryParseName(st)
  ELSE LET st1 == issue(st, <<"Expected a number or name.">>)
       IN  [st |-> st1,
            node |-> endNode("error", <<>>, Pos(st.y, st.x), st1)]

\* parseCallExpression; parseExpression returns its result.  The node of a
\* call starts where the callee ends.
RECURSIVE parseCallExpression(_)

\* push(parseExpression()) for the argument of a call; parseExpression
\* returns the node of parseCallExpression.
pushArgument(r) ==
  The({ pushNode(q, parseCallExpression(q.st)) : q \in {r} })

\* return end() of a call: the node starts where the callee ends.
endCall(callee, r) ==
  The({ [st |-> q.st,
         node |-> endNode("call-expression", q.children,
                          Pos(callee.st.y, callee.st.x), q.st)] :
        q \in {r} })

parseCallExpression(st) ==
  The({ IF nextToken(callee.st).type # "("
          THEN callee
        ELSE endCall(callee,
               skipPunctuationOf(
                 pushArgument(
                   skipPunctuationOf([st |-> callee.st,
                                      children |-> <<callee.node>>], "(")),
                 ")")) :
        callee \in {parseAtom(st)} })

parseCstExpression(st) == parseCallExpression(st)

\* push(tryParseName()) and push(parseExpression()).
pushName(r) == The({ pushNode(q, tryParseName(q.st)) : q \in {r} })

pushExpression(r) ==
  The({ pushNode(q, parseCstExpression(q.st)) : q \in {r} })

\* return end(): the node started at the position of st.
endStatement(type, st, r) ==
  The({ [st |-> q.st,
         node |-> endNode(type, q.children, Pos(st.y, st.x), q.st)] :
        q \in {r} })

tryParseLetStatement(st) ==
  IF nextToken(st).type # "let" THEN [st |-> st, node |-> Undefined]
  ELSE endStatement("let-statement", st,
         skipOverStatementOf(
           pushExpression(
             skipPunctuationOf(pushName(skip(st, <<>>)), "="))))

parseStatement(st) ==
  The({ IF letStatement.node # Undefined THEN letStatement
        ELSE endStatement("expression-statement", st,
               skipOverStatementOf(
                 pushExpression([st |-> st, children |-> <<>>]))) :
        letStatement \in {tryParseLetStatement(st)} })

\* The loop of parseProgram.
RECURSIVE ParseStatements(_, _)
ParseStatements(st, children) ==
  IF isEOF(st) THEN [st |-> st, children |-> children]
  ELSE The({ ParseStatements(r.st, Append(children, r.node)) :
               r \in {parseStatement(st)} })

parseProgram(st) == endStatement("program", st, ParseStatements(st, <<>>))

\* parse(tokens) of the compiler.
parse ==
  The({ [rootNode |-> r.node, issues |-> r.st.issues] :
        r \in {parseProgram(CstState(0, 0, 0, <<>>))} })

\* go of findTokenAt and its loop over the children from the k-th on; acc
\* holds `last`, and threw records the TypeError of reading the span of a
\* child that is undefined.
RECURSIVE FindGo(_, _, _, _)
RECURSIVE FindChildren(_, _, _, _, _)
FindGo(node, basePos, pos, acc) ==
  IF acc.threw THEN acc
  ELSE IF node = Undefined THEN [acc EXCEPT !.threw = TRUE]
  ELSE IF ~( /\ comparePos(basePos, pos) <= 0
             /\ comparePos(pos, appendPos(basePos, node.span)) < 0 )
    THEN acc
  ELSE FindChildren(node, 1, basePos, pos, [acc EXCEPT !.last = node])

FindChildren(node, k, p, pos, acc) ==
  IF acc.threw \/ k > Len(node.children) THEN acc
  ELSE The({ IF after.threw THEN after
             ELSE FindChildren(node, k + 1,
                               appendPos(p, node.children[k].span), pos,
                               after) :
             after \in {FindGo(node.children[k], p, pos, acc)} })

findTokenAt(model, pos) ==
  FindGo(model.rootNode, zeroPos, pos, [last |-> model.rootNode,
                                        threw |-> FALSE])

-----------------------------------------------------------------------------
(* The compiler of the semicolon syntax: the state machine *)

\* Largest number of pieces of a text given to the compiler.
MaxPieces == 4

\* The pieces the texts of the compiler are made of: the keyword, a name, an
\* integer, the punctuations, a space, a line break and an invalid
\* character.
CstPieces ==
  { KwLet, <<"x">>, <<"1">>, <<"=">>, <<";">>, <<"(">>, <<")">>, <<" ">>,
    <<"\n">>, <<"$">> }

CompilerTexts ==
  { JoinWith(ps, <<>>) : ps \in UNION { [1..n -> CstPieces] :
                                        n \in 0..MaxPieces } }

CompilerInit ==
  /\ source \in CompilerTexts
  /\ tokens = <<>>
  /\ pc = "tokenize"
  /\ i = 0
  /\ hasError = FALSE
  /\ diagnostics = <<>>
  /\ stack = <<>>
  /\ statements = <<>>
  /\ agenda = <<>>
  /\ symbolDefinitions = <<>>
  /\ environment = <<>>
  /\ semDiagnostics = <<>>
  /\ Unused

\* validateSource: tokenize(source).
TokenizeOffsets ==
  /\ pc = "tokenize"
  /\ tokens' = tokenizeOffsets(source)
  /\ pc' = "parseNodes"
  /\ UNCHANGED <<source, parserVars, statements, analyzerVars, serverVars,
                 compilerVars>>

\* validateSource: parse(tokens).
ParseNodes ==
  /\ pc = "parseNodes"
  /\ syn' = parse
  /\ pc' = "parsed"
  /\ UNCHANGED <<source, tokens, parserVars, statements, analyzerVars,
                 serverVars, found>>

\* The positions of the text: every column of every line, the end of the
\* line included.
PositionsOf(text) ==
  UNION { { Pos(y, x) : x \in 0..Len(SplitLines(text)[y + 1]) } :
          y \in 0..(Len(SplitLines(text)) - 1) }

\* A call of findTokenAt(syn, pos) on the parsed text.
FindTokenAt ==
  /\ pc = "parsed"
  /\ \E pos \in PositionsOf(source) :
       LET r == findTokenAt(syn, pos)
       IN  /\ found' = [type |-> "node", pos |-> pos, node |-> r.last]
           /\ pc' = IF r.threw THEN "threw" ELSE "found"
  /\ UNCHANGED <<source, tokens, parserVars, statements, analyzerVars,
                 serverVars, syn>>

CompilerNext == TokenizeOffsets \/ ParseNodes \/ FindTokenAt

CompilerSpec == CompilerInit /\ [][CompilerNext]_vars

-----------------------------------------------------------------------------
(* C12: the tokens of the compiler give the text back *)

\* Each token's leading gap, posToText(offset), followed by its text.
RECURSIVE Untokenize(_)
Untokenize(list) ==
  IF list = <<>> THEN <<>>
  ELSE posToText(Head(list).offset) \o Head(list).value
         \o Untokenize(Tail(list))

\* C12 as claimed: the gaps and texts of the tokens, the eof token included,
\* make a text with the same lines as the source.
C12_Lossless ==
  pc \in {"parseNodes", "parsed", "found"} =>
    SplitLines(Untokenize(tokens)) = SplitLines(source)

-----------------------------------------------------------------------------
(* C17: findTokenAt *)

\* Where the k-th token starts in the text, as the parser computes it.
RECURSIVE TokenStart(_)
TokenStart(k) ==
  appendPos(IF k = 1 THEN zeroPos
            ELSE appendPos(TokenStart(k - 1),
                           Pos(0, Len(tokens[k - 1].value))),
            tokens[k].offset)

\* The tokens whose text holds the position, eof excluded.
TokensAt(pos) ==
  { k \in 1..(Len(tokens) - 1) :
      /\ comparePos(TokenStart(k), pos) <= 0
      /\ comparePos(pos, appendPos(TokenStart(k),
                                   Pos(0, Len(tokens[k].value)))) < 0 }

\* C17 as claimed: findTokenAt returns; at a position inside the text of a
\* token the node found is the node of that token, the deepest one that
\* holds the position; at any other position, in a gap or on a blank line,
\* nothing is found, which is read here as the root node that findTokenAt
\* starts from.
C17_DeepestNode ==
  /\ pc # "threw"
  /\ pc = "found" =>
       IF TokensAt(found.pos) = {}
       THEN found.node = syn.rootNode
       ELSE /\ found.node.type = "token"
            /\ \A k \in TokensAt(found.pos) : found.node.token = tokens[k]

-----------------------------------------------------------------------------
(* Expressions: the operators of the grammar, chains and arguments *)

\* Largest number of lines of a text of ExpressionSources.
MaxShortLines == 2

\* The binary operators of the syntax in the README.
DocumentedOperators ==
  { <<"+">>, <<"-">>, <<"*">>, <<"/">>, <<"%">>, <<"=", "=">>, <<"!", "=">>,
    <<"<">>, <<"<", "=">>, <<">">>, <<">", "=">> }

\* `let x = y <operator> 1`
OperatorLine(operator) ==
  Words(<<KwLet, <<"x">>, <<"=">>, <<"y">>, operator, <<"1">>>>)

ChainLine ==
  Words(<<KwLet, <<"x">>, <<"=">>, <<"1">>, <<"+">>, <<"2">>, <<"+">>,
          <<"3">>>>)

TwoArgumentsLine ==
  Words(<<KwLet, <<"x">>, <<"=">>, <<"f", "(", "1">>, <<"2", ")">>>>)

\* A line for each operator; a chain of two operators after `let`, after
\* `while` and in a statement that follows an `end`; a call with two
\* arguments; a line that is no statement; and the lines that make a block.
ExpressionLineShapes ==
  { OperatorLine(operator) : operator \in DocumentedOperators }
  \cup { ChainLine,
         TwoArgumentsLine,
         Words(<<KwWhile, <<"1">>, <<"+">>, <<"2">>, <<"+">>, <<"3">>>>),
         Words(<<KwEnd, ChainLine>>),
         Words(<<<<"y">>>>),
         Words(<<KwIf, <<"x">>>>),
         Words(<<KwEnd>>) }

ExpressionSources ==
  UNION { { JoinWith(ls, <<"\n">>) : ls \in [1..n -> ExpressionLineShapes] } :
          n \in 0..MaxShortLines }

ExpressionSpec == InitFrom(ExpressionSources) /\ [][Next]_vars

\* The indexes of the tokens of a line, eol excluded, in source order.
TokensOnLine(line) ==
  { k \in 1..Len(tokens) :
      tokens[k].range.start.line = line /\ tokens[k].type # "eol" }

\* The tokens held by the expression of a statement, operator included.
AttachedTokens(statement) ==
  LET e == StatementExpression(statement)
  IN  Range1(ExpressionTokens(e))
        \cup (IF e.type = "binary" THEN {e.operator} ELSE {})

-----------------------------------------------------------------------------
(* C14: the operators of the grammar *)

\* C14 as claimed: on a line `let x = y <operator> 1` the operator is one
\* token of kind `operator`, and the parser returns for that line a let
\* statement whose initializer is the binary expression with that operator,
\* and no syntax diagnostic.
C14_DocumentedOperators ==
  \A l \in 0..(Len(SplitLines(source)) - 1) :
    \A operator \in DocumentedOperators :
      SplitLines(source)[l + 1] = OperatorLine(operator) =>
        /\ \E k \in TokensOnLine(l) :
             /\ tokens[k].type = "operator"
             /\ tokens[k].value = operator
             /\ tokens[k].range.start.character = 10
        /\ Cardinality(TokensOnLine(l)) = 6
        /\ Returned =>
             /\ \E n \in 1..Len(Flatten(statements)) :
                  LET st == Flatten(statements)[n]
                  IN  /\ st.type = "let"
                      /\ st.name.range.start.line = l
                      /\ st.init.type = "binary"
                      /\ st.init.operator.value = operator
             /\ DiagnosticsOnLine(diagnostics, l) = {}

-----------------------------------------------------------------------------
(* C15: one operator, one argument *)

IsAtomicAt(k) == k <= Len(tokens) /\ isAtomicExpression(tokens[k])

HasTypeAt(k, type) == k <= Len(tokens) /\ tokens[k].type = type

\* The first token of an expression: the token after `=`, `if` or `while`.
StartsExpression(k) ==
  k > 1 /\ (IsAssign(tokens[k - 1]) \/ tokens[k - 1].type \in {"if", "while"})

\* The tokens that follow the first complete expression of a line: the
\* second operator of a chain and what follows it, or the second argument
\* of a call and what follows it.
SurplusFrom(k) ==
  IF /\ IsAtomicAt(k) /\ HasTypeAt(k + 1, "operator") /\ IsAtomicAt(k + 2)
     /\ HasTypeAt(k + 3, "operator") /\ IsAtomicAt(k + 4)
    THEN { j \in TokensOnLine(tokens[k].range.start.line) : j >= k + 3 }
  ELSE IF /\ IsAtomicAt(k) /\ HasTypeAt(k + 1, "(") /\ IsAtomicAt(k + 2)
          /\ IsAtomicAt(k + 3)
    THEN { j \in TokensOnLine(tokens[k].range.start.line) : j >= k + 3 }
  ELSE {}

\* The expression nodes of the returned tree.
Expressions ==
  { StatementExpression(Flatten(statements)[n]) :
      n \in { m \in 1..Len(Flatten(statements)) :
              StatementExpression(Flatten(statements)[m]).type # "none" } }

\* A node of the grammar: a binary expression holds one operator token
\* between two atomic tokens, a call one callee and at most one argument.
IsSmallExpression(e) ==
  \/ e.type = "error"
  \/ e.type = "atomic" /\ isAtomicExpression(e.token)
  \/ /\ e.type = "binary"
     /\ DOMAIN e = {"type", "operator", "left", "right"}
     /\ e.operator.type = "operator"
     /\ isAtomicExpression(e.left)
     /\ isAtomicExpression(e.right)
  \/ /\ e.type = "call"
     /\ DOMAIN e \in {{"type", "callee"}, {"type", "callee", "arg"}}
     /\ isAtomicExpression(e.callee)
     /\ "arg" \in DOMAIN e => isAtomicExpression(e.arg)

\* C15 as claimed: every expression node of the returned tree is a node of
\* the grammar; and a line with a chain of two operators or with two call
\* arguments has an error statement and exactly one syntax diagnostic, and
\* none of its tokens after the first complete expression is held by an
\* expression.
C15_OneOperatorOneArgument ==
  Returned =>
    /\ \A e \in Expressions : IsSmallExpression(e)
    /\ \A k \in 1..Len(tokens) :
         StartsExpression(k) /\ SurplusFrom(k) # {} =>
           LET l == tokens[k].range.start.line
           IN  /\ \E e \in ErrorStatements(Flatten(statements)) :
                    e.range.start.line = l
               /\ Cardinality(DiagnosticsOnLine(diagnostics, l)) = 1
               /\ \A n \in 1..Len(Flatten(statements)) :
                    \A j \in SurplusFrom(k) :
                      tokens[j] \notin AttachedTokens(Flatten(statements)[n])

-----------------------------------------------------------------------------
(* hitTestSymbol *)

\* touch changed to leave out the end of the range.
touch_EndExcluded(range, position) ==
  /\ comparePositions(range.start, position) <= 0
  /\ comparePositions(position, range.end) < 0

\* touch of hitTestSymbol: the range holds the position, its end included.
touch(range, position) ==
  /\ comparePositions(range.start, position) <= 0
  /\ comparePositions(position, range.end) <= 0

\* The first token of a list that touches the position, if there is one.
FirstTouching(list, position) ==
  LET hits == { k \in 1..Len(list) : touch(list[k].range, position) }
  IN  IF hits = {} THEN Undefined
      ELSE list[CHOOSE k \in hits : \A j \in hits : k <= j]

\* The body of the outer loop of hitTestSymbol: the definitions of a symbol
\* are tried before its references.
HitInSymbol(symbolDefinition, position) ==
  IF FirstTouching(symbolDefinition.definitions, position) # Undefined
  THEN FirstTouching(symbolDefinition.definitions, position)
  ELSE FirstTouching(symbolDefinition.references, position)

hitTestSymbol(semanticModel, position) ==
  LET symbols == semanticModel.symbolDefinitions
      hits == { k \in 1..Len(symbols) :
                HitInSymbol(symbols[k], position) # Undefined }
      first == CHOOSE k \in hits : \A j \in hits : k <= j
  IN  IF hits = {} THEN Undefined
      ELSE [symbolDefinition |-> symbols[first],
            token |-> HitInSymbol(symbols[first], position)]

\* The lines of the texts given to hitTestSymbol: declarations and uses
\* written with and without spaces around the operator, a blank line, and
\* the lines that make a block.
HitLineShapes ==
  { Words(<<KwLet, <<"x">>, <<"=">>, <<"1">>>>),
    Words(<<KwLet, <<"y">>, <<"=">>, <<"x">>>>),
    Words(<<KwLet, <<"x", "=", "x">>>>),
    Words(<<KwSet, <<"x">>, <<"=">>, <<"x", "+", "1">>>>),
    <<>>,
    Words(<<KwWhile, <<"x">>>>),
    Words(<<KwIf, <<"y">>>>),
    Words(<<KwEnd>>) }

HitSources ==
  UNION { { JoinWith(ls, <<"\n">>) : ls \in [1..n -> HitLineShapes] } :
          n \in 0..MaxShortLines }

\* The semantic model analyzeSource returns, from the variables of the
\* parser and the analyzer.
CurrentModel ==
  [statements |-> statements, symbolDefinitions |-> symbolDefinitions,
   diagnostics |-> diagnostics \o semDiagnostics]

\* The positions of the text as the editor sends them.
PositionsIn(text) ==
  { Position(p.y, p.x) : p \in PositionsOf(text) }

\* testHitTestSymbol: hitTestSymbol(analyzeSource(source), position).
HitTest ==
  /\ pc = "done"
  /\ incoming.method = "none"
  /\ \E position \in PositionsIn(source) :
       found' = [type |-> "hit", position |-> position,
                 hit |-> hitTestSymbol(CurrentModel, position)]
  /\ pc' = "hit"
  /\ UNCHANGED <<source, tokens, parserVars, statements, analyzerVars,
                 serverVars, syn>>

HitTestSpec == InitFrom(HitSources) /\ [][Next \/ HitTest]_vars

-----------------------------------------------------------------------------
(* C16: hitTestSymbol finds the names and nothing else *)

\* The definition and reference tokens of the symbols, with their symbol.
SymbolTokens(symbols) ==
  UNION { { [symbol |-> k, token |-> t] :
            t \in Range1(symbols[k].definitions)
                    \cup Range1(symbols[k].references) } :
          k \in 1..Len(symbols) }

\* The position is on a character of a keyword, an operator or an integer
\* literal.
OnOtherToken(position) ==
  \E k \in 1..Len(tokens) :
    /\ tokens[k].type \in {"let", "set", "end", "if", "while", "operator",
                           "int"}
    /\ comparePositions(tokens[k].range.start, position) <= 0
    /\ comparePositions(position, tokens[k].range.end) < 0

\* The position is on a space or on a blank line.
OnWhiteSpace(position) ==
  LET lineText == SplitLines(source)[position.line + 1]
  IN  \/ IsBlank(lineText)
      \/ /\ position.character < Len(lineText)
         /\ lineText[position.character + 1] = " "

\* The position is right after the last character of a symbol's token.
AfterName(position) ==
  \E st \in SymbolTokens(symbolDefinitions) : st.token.range.end = position

\* hitTestSymbol returns a symbol and a token exactly when a definition or
\* reference token holds the position, its end included, and then it
\* returns such a token with the symbol that lists it.
HitIffTouched ==
  LET touched == { st \in SymbolTokens(symbolDefinitions) :
                   /\ comparePositions(st.token.range.start,
                                       found.position) <= 0
                   /\ comparePositions(found.position,
                                       st.token.range.end) <= 0 }
  IN  IF touched = {} THEN found.hit = Undefined
      ELSE /\ found.hit # Undefined
           /\ \E st \in touched :
                /\ found.hit.token = st.token
                /\ found.hit.symbolDefinition = symbolDefinitions[st.symbol]

\* C16 as claimed: with the above, nothing is found at a position on a
\* keyword, an operator or an integer literal, nor on a space that does not
\* directly follow a name, nor on a blank line.
C16_OnlyNamesHit ==
  pc = "hit" =>
    /\ HitIffTouched
    /\ OnOtherToken(found.position) => found.hit = Undefined
    /\ OnWhiteSpace(found.position) /\ ~AfterName(found.position)
         => found.hit = Undefined

\* C16 amended: the position right after a name hits the name, whatever
\* starts there: a space, the end of the line, or an operator written
\* without a space; at every other position on a keyword, an operator, an
\* integer literal, a space or a blank line nothing is found.
C16_NamesHitToTheirEnd ==
  pc = "hit" =>
    /\ HitIffTouched
    /\ \A st \in SymbolTokens(symbolDefinitions) :
         st.token.range.end = found.position
           => found.hit # Undefined /\ found.hit.token = st.token
    /\ (OnOtherToken(found.position) \/ OnWhiteSpace(found.position))
         /\ ~AfterName(found.position)
         => found.hit = Undefined

\* In `let x=x` the position of the operator is the end of the declared
\* name, and the declaration is what is found there.
C16_Witness ==
  /\ pc = "hit"
  /\ source = Words(<<KwLet, <<"x", "=", "x">>>>)
  /\ found.position = Position(0, 5)
  /\ OnOtherToken(found.position)
  /\ found.hit # Undefined
  /\ found.hit.token.range = Range(Position(0, 4), Position(0, 5))
  /\ found.hit.symbolDefinition.definitions = <<found.hit.token>>

-----------------------------------------------------------------------------
(* The language server: the open documents and the queries *)

\* Largest version number of a document.
MaxVersion == 1

\* JSON null, and the version of a document that has none.
Null == [type |-> "null"]

NullVersion == -1

Versions == {NullVersion} \cup 1..MaxVersion

\* version || 0
OrZero(version) == IF version = NullVersion THEN 0 ELSE version

\* An array, as a value that is neither undefined nor null.
Array(items) == [type |-> "array", items |-> items]

\* result || null
OrNull(result) == IF result = Undefined THEN Null ELSE result

Uris == {"file:a", "file:b"}

\* The documents the editor sends: a declaration and an assignment that
\* uses the name twice; a declaration and blocks that are closed, with a name
\* that is not declared, a blank line and an `end` without a block; a block
\* left open; and the empty text.
ServerTexts ==
  { JoinWith(<<Words(<<KwLet, <<"x", "=", "1">>>>),
               Words(<<KwSet, <<"x", "=", "x">>>>)>>, <<"\n">>),
    JoinWith(<<Words(<<KwLet, <<"y", "=", "2">>>>),
               Words(<<KwWhile, <<"y">>>>),
               Words(<<KwIf, <<"y">>>>),
               Words(<<KwSet, <<"y", "=", "z">>>>),
               Words(<<KwEnd>>),
               Words(<<KwEnd>>),
               <<>>,
               Words(<<KwEnd>>)>>, <<"\n">>),
    JoinWith(<<Words(<<KwIf, <<"x">>>>),
               Words(<<KwLet, <<"x", "=", "1">>>>)>>, <<"\n">>),
    <<>> }

\* The positions the editor asks about: those of the first two lines of a
\* document, up to the end of the longer one.
QueryPositions ==
  PositionsIn(JoinWith(<<Words(<<KwWhile, <<"y">>>>),
                         Words(<<KwSet, <<"x", "=", "x">>>>)>>, <<"\n">>))

NewNames == { <<"x", "2">> }

\* The id of a request.
RequestIds == {1}

\* sendResponse(id, result) and sendNotify(method, params), as what is
\* written to the client.
Response(id, result) == [kind |-> "response", id |-> id, result |-> result]

Notify(method, params) ==
  [kind |-> "notify", method |-> method, params |-> params]

\* createHighlights changed to list the references before the definitions.
createHighlights_ReferencesFirst(uri, position) ==
  IF uri \notin DOMAIN openDocuments THEN Undefined
  ELSE LET hit == hitTestSymbol(openDocuments[uri].semanticModel, position)
           definitions == hit.symbolDefinition.definitions
           references == hit.symbolDefinition.references
       IN  IF hit = Undefined THEN Undefined
           ELSE Array([k \in 1..Len(references) |->
                         [kind |-> "Read", range |-> references[k].range]]
                      \o [k \in 1..Len(definitions) |->
                            [kind |-> "Write",
                             range |-> definitions[k].range]])

createHighlights(uri, position) ==
  IF uri \notin DOMAIN openDocuments THEN Undefined
  ELSE LET hit == hitTestSymbol(openDocuments[uri].semanticModel, position)
           definitions == hit.symbolDefinition.definitions
           references == hit.symbolDefinition.references
       IN  IF hit = Undefined THEN Undefined
           ELSE Array([k \in 1..Len(definitions) |->
                         [kind |-> "Write", range |-> definitions[k].range]]
                      \o [k \in 1..Len(references) |->
                            [kind |-> "Read",
                             range |-> references[k].range]])

\* prepareRename changed to answer a miss with an empty range at the
\* position.
prepareRename_EmptyRange(uri, position) ==
  IF uri \notin DOMAIN openDocuments THEN Undefined
  ELSE LET hit == hitTestSymbol(openDocuments[uri].semanticModel, position)
       IN  IF hit = Undefined THEN Range(position, position)
           ELSE hit.token.range

prepareRename(uri, position) ==
  IF uri \notin DOMAIN openDocuments THEN Undefined
  ELSE LET hit == hitTestSymbol(openDocuments[uri].semanticModel, position)
       IN  IF hit = Undefined THEN Undefined ELSE hit.token.range

\* createRenameEdit changed to edit the definitions only.
createRenameEdit_DefinitionsOnly(uri, position, newName) ==
  IF uri \notin DOMAIN openDocuments THEN Undefined
  ELSE LET openDocument == openDocuments[uri]
           hit == hitTestSymbol(openDocument.semanticModel, position)
           definitions == hit.symbolDefinition.definitions
           edits == [k \in 1..Len(definitions) |->
                       [range |-> definitions[k].range, newText |-> newName]]
       IN  IF hit = Undefined THEN Undefined
           ELSE [documentChanges |->
                   <<[textDocument |-> [uri |-> uri,
                                        version |-> openDocument.version],
                      edits |-> edits]>>]

createRenameEdit(uri, position, newName) ==
  IF uri \notin DOMAIN openDocuments THEN Undefined
  ELSE LET openDocument == openDocuments[uri]
           hit == hitTestSymbol(openDocument.semanticModel, position)
           definitions == hit.symbolDefinition.definitions
           references == hit.symbolDefinition.references
           edits == [k \in 1..Len(definitions) |->
                       [range |-> definitions[k].range, newText |-> newName]]
                    \o [k \in 1..Len(references) |->
                          [range |-> references[k].range,
                           newText |-> newName]]
       IN  IF hit = Undefined THEN Undefined
           ELSE [documentChanges |->
                   <<[textDocument |-> [uri |-> uri,
                                        version |-> openDocument.version],
                      edits |-> edits]>>]

-----------------------------------------------------------------------------
(* The language server: onMessage *)

\* The server waits for a message; no document is open.
ServerInit ==
  /\ source = <<>>
  /\ tokens = <<>>
  /\ pc = "idle"
  /\ i = 0
  /\ hasError = FALSE
  /\ diagnostics = <<>>
  /\ stack = <<>>
  /\ statements = <<>>
  /\ agenda = <<>>
  /\ symbolDefinitions = <<>>
  /\ environment = <<>>
  /\ semDiagnostics = <<>>
  /\ Unused

\* documentDidOpenOrChange up to the call of analyzeSource: a version older
\* than the stored one is ignored, otherwise the analysis of the text
\* starts.
documentDidOpenOrChange(uri, version, text) ==
  IF /\ uri \in DOMAIN openDocuments
     /\ OrZero(openDocuments[uri].version) > OrZero(version)
  THEN /\ pc' = "idle"
       /\ UNCHANGED <<source, tokens, parserVars, statements, analyzerVars>>
  ELSE /\ pc' = "parse"
       /\ source' = text
       /\ tokens' = tokenize(text)
       /\ i' = 0
       /\ hasError' = FALSE
       /\ diagnostics' = <<>>
       /\ stack' = <<[kind |-> "top",
                      header |-> [condition |-> [type |-> "none"]],
                      statements |-> <<>>]>>
       /\ statements' = <<>>
       /\ agenda' = <<>>
       /\ symbolDefinitions' = <<>>
       /\ environment' = <<>>
       /\ semDiagnostics' = <<>>

\* onMessage: textDocument/didOpen.
DidOpen ==
  /\ pc = "idle"
  /\ \E uri \in Uris, version \in Versions, text \in ServerTexts :
       /\ incoming' = [method |-> "textDocument/didOpen", uri |-> uri,
                       version |-> version, text |-> text]
       /\ documentDidOpenOrChange(uri, version, text)
  /\ sent' = <<>>
  /\ UNCHANGED <<openDocuments, compilerVars>>

\* onMessage: textDocument/didChange.
DidChange ==
  /\ pc = "idle"
  /\ \E uri \in Uris, version \in Versions, text \in ServerTexts :
       /\ incoming' = [method |-> "textDocument/didChange", uri |-> uri,
                       version |-> version, text |-> text]
       /\ documentDidOpenOrChange(uri, version, text)
  /\ sent' = <<>>
  /\ UNCHANGED <<openDocuments, compilerVars>>

\* documentDidOpenOrChange after analyzeSource has returned: the document
\* is stored and its diagnostics are published.
StoreDocument ==
  /\ pc = "done"
  /\ incoming.method \in {"textDocument/didOpen", "textDocument/didChange"}
  /\ openDocuments' =
       (incoming.uri :> [version |-> incoming.version,
                         semanticModel |-> CurrentModel]) @@ openDocuments
  /\ sent' = Append(sent, Notify("textDocument/publishDiagnostics",
                                 [uri |-> incoming.uri,
                                  diagnostics |-> CurrentModel.diagnostics]))
  /\ pc' = "idle"
  /\ UNCHANGED <<source, tokens, parserVars, statements, analyzerVars,
                 incoming, compilerVars>>

\* onMessage: textDocument/didClose.  The case has no break: after the
\* document is deleted the case of textDocument/documentHighlight runs with
\* the same params, which hold no position, and the id of the message, which
\* a notification does not have.
DidClose ==
  /\ pc = "idle"
  /\ \E uri \in Uris :
       /\ incoming' = [method |-> "textDocument/didClose", uri |-> uri]
       /\ openDocuments' = [u \in DOMAIN openDocuments \ {uri} |->
                              openDocuments[u]]
       /\ sent' = <<Response(Undefined, Null)>>
  /\ UNCHANGED <<source, tokens, pc, parserVars, statements, analyzerVars,
                 compilerVars>>

\* onMessage: textDocument/documentHighlight.
DocumentHighlight ==
  /\ pc = "idle"
  /\ \E id \in RequestIds, uri \in Uris, position \in QueryPositions :
       /\ incoming' = [method |-> "textDocument/documentHighlight",
                       id |-> id, uri |-> uri, position |-> position]
       /\ sent' = <<Response(id, OrNull(createHighlights(uri, position)))>>
  /\ UNCHANGED <<source, tokens, pc, parserVars, statements, analyzerVars,
                 openDocuments, compilerVars>>

\* onMessage: textDocument/prepareRename.
PrepareRename ==
  /\ pc = "idle"
  /\ \E id \in RequestIds, uri \in Uris, position \in QueryPositions :
       /\ incoming' = [method |-> "textDocument/prepareRename",
                       id |-> id, uri |-> uri, position |-> position]
       /\ sent' = <<Response(id, OrNull(prepareRename(uri, position)))>>
  /\ UNCHANGED <<source, tokens, pc, parserVars, statements, analyzerVars,
                 openDocuments, compilerVars>>

\* onMessage: textDocument/rename.
Rename ==
  /\ pc = "idle"
  /\ \E id \in RequestIds, uri \in Uris, position \in QueryPositions,
        newName \in NewNames :
       /\ incoming' = [method |-> "textDocument/rename", id |-> id,
                       uri |-> uri, position |-> position,
                       newName |-> newName]
       /\ sent' = <<Response(id, OrNull(createRenameEdit(uri, position,
                                                         newName)))>>
  /\ UNCHANGED <<source, tokens, pc, parserVars, statements, analyzerVars,
                 openDocuments, compilerVars>>

\* JSON true.
True == [type |-> "true"]

\* What the client says of its support of prepareRename in the capabilities
\* of initialize: no textDocument, no rename, no prepareSupport, or support.
ClientCapabilities ==
  { [textDocument |-> Undefined],
    [textDocument |-> [rename |-> Undefined]],
    [textDocument |-> [rename |-> [prepareSupport |-> FALSE]]],
    [textDocument |-> [rename |-> [prepareSupport |-> TRUE]]] }

\* capabilities.textDocument && capabilities.textDocument.rename
\*   && capabilities.textDocument.rename.prepareSupport
PrepareSupported(capabilities) ==
  IF capabilities.textDocument = Undefined THEN FALSE
  ELSE IF capabilities.textDocument.rename = Undefined THEN FALSE
  ELSE capabilities.textDocument.rename.prepareSupport

\* onMessage: initialize.
Initialize ==
  /\ pc = "idle"
  /\ \E id \in RequestIds, capabilities \in ClientCapabilities :
       /\ incoming' = [method |-> "initialize", id |-> id,
                       capabilities |-> capabilities]
       /\ sent' =
            <<Response(id,
                [capabilities |->
                   [textDocumentSync |-> [openClose |-> TRUE,
                                          change |-> "Full"],
                    documentHighlightProvider |-> TRUE,
                    renameProvider |->
                      IF PrepareSupported(capabilities)
                      THEN [prepareProvider |-> TRUE]
                      ELSE True]])>>
  /\ UNCHANGED <<source, tokens, pc, parserVars, statements, analyzerVars,
                 openDocuments, compilerVars>>

\* onMessage: initialized.
Initialized ==
  /\ pc = "idle"
  /\ incoming' = [method |-> "initialized"]
  /\ sent' = <<>>
  /\ UNCHANGED <<source, tokens, pc, parserVars, statements, analyzerVars,
                 openDocuments, compilerVars>>

\* onMessage: shutdown.
Shutdown ==
  /\ pc = "idle"
  /\ \E id \in RequestIds :
       /\ incoming' = [method |-> "shutdown", id |-> id]
       /\ sent' = <<Response(id, Null)>>
  /\ UNCHANGED <<source, tokens, pc, parserVars, statements, analyzerVars,
                 openDocuments, compilerVars>>

\* The steps of onMessage; the steps of Next are those of analyzeSource,
\* called by documentDidOpenOrChange.  An exception of analyzeSource leaves
\* the handler of the input stream and ends the process.
ServerNext ==
  \/ Initialize
  \/ Initialized
  \/ Shutdown
  \/ DidOpen
  \/ DidChange
  \/ StoreDocument
  \/ DidClose
  \/ DocumentHighlight
  \/ PrepareRename
  \/ Rename
  \/ Next

ServerSpec == ServerInit /\ [][ServerNext]_vars

-----------------------------------------------------------------------------
(* The answers to the queries *)

\* A request of the method has been answered and nothing has happened
\* since: the documents are those the answer was computed from.
Answered(method) ==
  /\ incoming.method = method
  /\ Len(sent) = 1
  /\ sent[1].kind = "response"
  /\ sent[1].id = incoming.id

\* What hitTestSymbol finds for the request in the open documents.
HitOfRequest ==
  IF incoming.uri \in DOMAIN openDocuments
  THEN hitTestSymbol(openDocuments[incoming.uri].semanticModel,
                     incoming.position)
  ELSE Undefined

\* The ranges of the tokens, in the order of the list.
RangesOf(items) == [k \in 1..Len(items) |-> items[k].range]

\* The ranges come one after the other in the text.
InSourceOrder(ranges) ==
  \A j, k \in 1..Len(ranges) :
    j < k => comparePositions(ranges[j].start, ranges[k].start) < 0

\* C18: when a position of an open document resolves to a symbol, the
\* highlights are one Write per definition token of the symbol, then one Read
\* per reference token of the symbol, and nothing else, and the Read
\* highlights follow the order of the source.
C18_HighlightsOfSymbol ==
  (Answered("textDocument/documentHighlight") /\ HitOfRequest # Undefined)
    => LET symbol == HitOfRequest.symbolDefinition
           result == sent[1].result
           writes == Len(symbol.definitions)
           reads == Len(symbol.references)
       IN  /\ result.type = "array"
           /\ Len(result.items) = writes + reads
           /\ \A k \in 1..writes :
                result.items[k] = [kind |-> "Write",
                                   range |-> symbol.definitions[k].range]
           /\ \A k \in 1..reads :
                result.items[writes + k] =
                  [kind |-> "Read", range |-> symbol.references[k].range]
           /\ InSourceOrder(RangesOf(SubSeq(result.items, writes + 1,
                                            writes + reads)))

\* The second `x` of `set x=x` is asked about: the declaration is
\* highlighted as Write and the two uses as Read.
C18_Witness ==
  /\ Answered("textDocument/documentHighlight")
  /\ incoming.position = Position(1, 6)
  /\ HitOfRequest # Undefined
  /\ sent[1].result.type = "array"
  /\ RangesOf(sent[1].result.items) =
       <<Range(Position(0, 4), Position(0, 5)),
         Range(Position(1, 4), Position(1, 5)),
         Range(Position(1, 6), Position(1, 7))>>
  /\ [k \in 1..3 |-> sent[1].result.items[k].kind] =
       <<"Write", "Read", "Read">>


\* C19: when a position of an open document resolves to a symbol, the edits
\* of a rename have the ranges of the highlights for the same position, as
\* many and in the same order, those of the definitions first, and each edit
\* replaces its range by the new name.
C19_RenameEditsFollowHighlights ==
  (Answered("textDocument/rename") /\ HitOfRequest # Undefined)
    => LET result == sent[1].result
           highlights == createHighlights(incoming.uri, incoming.position)
           definitions == HitOfRequest.symbolDefinition.definitions
       IN  /\ result # Null
           /\ highlights # Undefined
           /\ Len(result.documentChanges) = 1
           /\ LET edits == result.documentChanges[1].edits
              IN  /\ RangesOf(edits) = RangesOf(highlights.items)
                  /\ \A k \in 1..Len(edits) :
                       edits[k].newText = incoming.newName
                  /\ Len(edits) >= Len(definitions)
                  /\ \A k \in 1..Len(definitions) :
                       edits[k].range = definitions[k].range

\* The declaration of `x` is renamed: the declaration and the two uses in
\* `set x=x` are replaced, in this order.
C19_Witness ==
  /\ Answered("textDocument/rename")
  /\ incoming.position = Position(0, 4)
  /\ HitOfRequest # Undefined
  /\ sent[1].result # Null
  /\ sent[1].result.documentChanges[1].edits =
       <<[range |-> Range(Position(0, 4), Position(0, 5)),
          newText |-> incoming.newName],
         [range |-> Range(Position(1, 4), Position(1, 5)),
          newText |-> incoming.newName],
         [range |-> Range(Position(1, 6), Position(1, 7)),
          newText |-> incoming.newName]>>


RenameMethods == {"textDocument/prepareRename", "textDocument/rename"}

\* A prepareRename or rename request has been answered for a document that
\* is not open or for a position where hitTestSymbol finds no symbol.
NoSymbolToRename ==
  /\ incoming.method \in RenameMethods
  /\ Answered(incoming.method)
  /\ HitOfRequest = Undefined

\* C20: a prepareRename or rename request for a document that is not open,
\* or for a position where hitTestSymbol finds no symbol, is answered with
\* null and nothing else is sent; prepareRename and createRenameEdit return
\* undefined, so that there is no edit; the server goes on waiting for
\* messages, and the step that answers with null leaves the open documents
\* as they were.
C20_NoSymbolNoEdit ==
  /\ [](NoSymbolToRename
          => /\ sent = <<Response(incoming.id, Null)>>
             /\ prepareRename(incoming.uri, incoming.position) = Undefined
             /\ \A newName \in NewNames :
                  createRenameEdit(incoming.uri, incoming.position, newName)
                    = Undefined
             /\ pc = "idle")
  /\ [][(pc = "idle" /\ incoming'.method \in RenameMethods
           /\ sent' = <<Response(incoming'.id, Null)>>)
          => (pc' = "idle" /\ openDocuments' = openDocuments)]_vars

\* A rename is asked for at the keyword `let` of an open document, where no
\* symbol is, and answered with null.
C20_Witness ==
  /\ Answered("textDocument/rename")
  /\ incoming.uri \in DOMAIN openDocuments
  /\ Len(openDocuments[incoming.uri].semanticModel.symbolDefinitions) > 0
  /\ incoming.position = Position(0, 1)
  /\ HitOfRequest = Undefined
  /\ sent[1].result = Null


-----------------------------------------------------------------------------
(* The compiler of the semicolon syntax: positions and offsets *)

\* Largest line and column of a position or an offset.
MaxCoordinate == 2

Coordinates == 0..MaxCoordinate

Positions == { Pos(y, x) : y \in Coordinates, x \in Coordinates }

\* Two positions are given; the second one is also read as an offset.
PosInit ==
  /\ source = <<>>
  /\ tokens = <<>>
  /\ pc = "pos"
  /\ i = 0
  /\ hasError = FALSE
  /\ diagnostics = <<>>
  /\ stack = <<>>
  /\ statements = <<>>
  /\ agenda = <<>>
  /\ symbolDefinitions = <<>>
  /\ environment = <<>>
  /\ semDiagnostics = <<>>
  /\ openDocuments = <<>>
  /\ incoming = [method |-> "none"]
  /\ sent = <<>>
  /\ syn = [type |-> "none"]
  /\ found \in { [type |-> "positions", l |-> l, r |-> r, result |-> zeroPos] :
                  l \in Positions, r \in Positions }

\* A call of distancePos(l, r).
DistancePos ==
  /\ pc = "pos"
  /\ found' = [found EXCEPT !.type = "distance",
                            !.result = distancePos(found.l, found.r)]
  /\ pc' = "applied"
  /\ UNCHANGED <<source, tokens, parserVars, statements, analyzerVars,
                 serverVars, syn>>

\* A call of appendPos(l, r), r being an offset.
AppendPos ==
  /\ pc = "pos"
  /\ found' = [found EXCEPT !.type = "append",
                            !.result = appendPos(found.l, found.r)]
  /\ pc' = "applied"
  /\ UNCHANGED <<source, tokens, parserVars, statements, analyzerVars,
                 serverVars, syn>>

PosSpec == PosInit /\ [][DistancePos \/ AppendPos]_vars

\* C23: for positions l <= r, appending the distance from l to r to l gives
\* r; for a position l and an offset d, the distance from l to l with d
\* appended is d; the distance is the same in both directions and is the
\* zero offset between equal positions.
C23_OffsetsComposeAndInvert ==
  /\ (found.type = "distance" /\ comparePos(found.l, found.r) <= 0)
       => appendPos(found.l, found.result) = found.r
  /\ found.type = "distance"
       => /\ found.result = distancePos(found.r, found.l)
          /\ (found.l = found.r => found.result = zeroPos)
  /\ found.type = "append"
       => distancePos(found.l, found.result) = found.r

\* The distance from line 1, column 2 to line 2, column 1 is one line and
\* one column, and appending it to the first position gives the second.
C23_Witness ==
  /\ found.type = "distance"
  /\ found.l = Pos(1, 2)
  /\ found.r = Pos(2, 1)
  /\ found.result = Pos(1, 1)
  /\ appendPos(found.l, found.result) = found.r


-----------------------------------------------------------------------------
(* C24: declarations inside the body of a block *)

\* The texts with a block: an optional declaration of `x` before the block,
\* the header, a body that declares `x`, declares another name or holds a
\* block that declares `x`, the `end`, and a line after it that uses `x` as
\* an operand, as the target of `set`, in its own redeclaration or as the
\* argument of a call, or that is blank or another `end`.
BlockSources ==
  { JoinWith(prefix \o <<header>> \o body \o <<KwEnd>> \o after, <<"\n">>) :
      prefix \in { <<>>, <<Words(<<KwLet, <<"x">>, <<"=">>, <<"0">>>>)>> },
      header \in { Words(<<KwIf, <<"1">>>>), Words(<<KwWhile, <<"1">>>>) },
      body \in { <<Words(<<KwLet, <<"x">>, <<"=">>, <<"1">>>>)>>,
                 <<Words(<<KwLet, <<"y">>, <<"=">>, <<"1">>>>)>>,
                 <<Words(<<KwLet, <<"x">>, <<"=">>, <<"1">>>>),
                   Words(<<KwSet, <<"x">>, <<"=">>, <<"x">>, <<"+">>,
                           <<"1">>>>)>>,
                 <<Words(<<KwIf, <<"1">>>>),
                   Words(<<KwLet, <<"x">>, <<"=">>, <<"1">>>>),
                   KwEnd>> },
      after \in { <<Words(<<KwLet, <<"y">>, <<"=">>, <<"x">>>>)>>,
                  <<Words(<<KwSet, <<"x">>, <<"=">>, <<"x">>, <<"+">>,
                            <<"1">>>>)>>,
                  <<Words(<<KwLet, <<"x">>, <<"=">>, <<"x">>>>)>>,
                  <<Words(<<KwLet, <<"y">>, <<"=">>,
                            <<"f", "(", "x", ")">>>>)>>,
                  <<Words(<<KwIf, <<"x">>>>), KwEnd>>,
                  <<<<>>>>,
                  <<KwEnd>> } }
  \cup { <<>> }

BlockSpec == InitFrom(BlockSources) /\ [][Next]_vars

\* The name tokens a statement refers to: those in expression position and
\* the target of a `set`.
NamesReferred(statement) ==
  NamesUsed(statement)
    \cup (IF statement.type = "set" /\ statement.left.type = "name"
          THEN {statement.left} ELSE {})

\* The statement declares the name.
Declares(statement, name) ==
  statement.type = "let" /\ statement.name.type = "name"
    /\ statement.name.value = name

\* The symbols that hold the token as their definition.
SymbolsDefinedAt(token) ==
  { k \in 1..Len(symbolDefinitions) :
      symbolDefinitions[k].definitions = <<token>> }

\* C24: when a `let` in the body of an `if` or a `while` declares a name, a
\* reference to the name after the `end` of the block, with no declaration
\* of the name in between, is among the references of the symbol declared
\* in the body and has no "is not defined" diagnostic.
C24_BodyBindingsVisibleAfterEnd ==
  pc = "done"
    => LET flat == Flatten(statements)
       IN  \A b \in 1..Len(flat) :
             flat[b].type \in {"if", "while"}
               => LET last == b + Len(Flatten(NestedStatements(flat[b])))
                  IN  \A k \in (b + 1)..last, m \in (last + 1)..Len(flat) :
                        \A token \in NamesReferred(flat[m]) :
                          ( /\ Declares(flat[k], token.value)
                            /\ \A j \in (k + 1)..(m - 1) :
                                 ~Declares(flat[j], token.value) )
                            => /\ \E s \in SymbolsDefinedAt(flat[k].name) :
                                    token \in
                                      Range1(symbolDefinitions[s].references)
                               /\ NotDefinedCount(semDiagnostics, token) = 0

-----------------------------------------------------------------------------
(* C27: the range of an error statement and the cursor after it *)

\* The cursors at which the statement that starts at the cursor can detect
\* an error: the tokens of its line, the end-of-line marker included, or the
\* end of the input when the loop of parseClause has run out of tokens.
LineCursors ==
  IF pc # "parse" THEN {}
  ELSE IF i < Len(tokens) THEN i..NextEol(i)
  ELSE IF InClause THEN {i}
  ELSE {}

\* errorStatement called with the cursor at token l.
ErrorAt(l) == errorStatement([CurrentParser EXCEPT !.i = l], "Expected 'end'.")

\* The range of the error statement made at token l: from that token to the
\* last token before the end-of-line marker, or the zero-length range of the
\* marker itself.
RangeOnLine(l) ==
  LET e == ErrorAt(l)
      range == e.node.range
  IN  /\ range.start.line = range.end.line
      /\ IF tokenAt(l).type = "eol"
           THEN range = tokenAt(l).range /\ range.start = range.end
         ELSE /\ range.start = tokenAt(l).range.start
              /\ e.ps.i > l
              /\ range.end = tokenAt(e.ps.i - 1).range.end
              /\ \A k \in l..(e.ps.i - 1) : tokenAt(k).type # "eol"

\* The cursor after the error statement made at token l is at the
\* end-of-line marker of the line of the statement.
CursorAtEol(l) ==
  LET e == ErrorAt(l)
  IN  /\ e.ps.i < Len(tokens)
      /\ tokenAt(e.ps.i).type = "eol"
      /\ tokenAt(e.ps.i).range.start.line = e.node.range.start.line

\* C27 as claimed: every error statement starts at the first token not yet
\* consumed and ends with the line, or is the zero-length range of the
\* end-of-line marker, and the cursor is at that marker afterwards.
C27_ErrorStatementOnItsLine ==
  \A l \in LineCursors :
    /\ l < Len(tokens) => RangeOnLine(l)
    /\ CursorAtEol(l)

\* C27 amended: the same, and at the end of the input, where no token is
\* left, the error statement has the range of the last token and the cursor
\* stays at the end of the input.
C27_ErrorStatementOnItsLineOrAtEnd ==
  \A l \in LineCursors :
    IF l < Len(tokens) THEN RangeOnLine(l) /\ CursorAtEol(l)
    ELSE /\ ErrorAt(l).node.range = tokenAt(Len(tokens) - 1).range
         /\ ErrorAt(l).ps.i = Len(tokens)

\* `let let y = 1`: the error statement of the missing name runs from the
\* second `let` over more than one token to the end of the line.
C27_Witness ==
  /\ pc = "done"
  /\ \E k \in 1..Len(statements) :
       /\ statements[k].type = "error"
       /\ statements[k].message = "Expected a name."
       /\ \E t \in 1..Len(tokens) :
            /\ tokens[t].type # "eol"
            /\ statements[k].range.start = tokens[t].range.start
            /\ statements[k].range.end.character
                 > tokens[t].range.end.character
            /\ ErrorAt(t - 1).node.range = statements[k].range

-----------------------------------------------------------------------------
(* C28: the tokens of the symbols of a semantic model *)

\* The tokens a symbol lists: its definitions followed by its references.
SiteTokens(symbols, s) == symbols[s].definitions \o symbols[s].references

\* The symbols with a token that holds the position, its end included.
SymbolsTouched(symbols, position) ==
  { s \in 1..Len(symbols) :
      \E t \in Range1(SiteTokens(symbols, s)) : touch(t.range, position) }

\* C28: a name token is listed once, by one symbol; a reference has the text
\* of the definition of its symbol and lies after it in the source; and at
\* the position of a hit test, the tokens of one symbol at most hold the
\* position, which is the symbol hitTestSymbol returns.
C28_SymbolTokensDisjoint ==
  /\ pc \in {"analyze", "done", "hit"} =>
       /\ \A s1, s2 \in 1..Len(symbolDefinitions) :
            \A k1 \in 1..Len(SiteTokens(symbolDefinitions, s1)),
               k2 \in 1..Len(SiteTokens(symbolDefinitions, s2)) :
              SiteTokens(symbolDefinitions, s1)[k1]
                = SiteTokens(symbolDefinitions, s2)[k2]
              => s1 = s2 /\ k1 = k2
       /\ \A s \in 1..Len(symbolDefinitions) :
            /\ Len(symbolDefinitions[s].definitions) = 1
            /\ \A r \in Range1(symbolDefinitions[s].references) :
                 /\ r.type = "name"
                 /\ r.value = symbolDefinitions[s].definitions[1].value
                 /\ comparePositions(
                      symbolDefinitions[s].definitions[1].range.end,
                      r.range.start) < 0
  /\ pc = "hit" =>
       /\ Cardinality(SymbolsTouched(symbolDefinitions, found.position)) <= 1
       /\ \A s \in SymbolsTouched(symbolDefinitions, found.position) :
            /\ found.hit # Undefined
            /\ found.hit.symbolDefinition = symbolDefinitions[s]

\* Two symbols of one name, the first with a reference from the declaration
\* of the second (`let x=x` after a declaration of x), hit at a position
\* that a token of the second symbol holds.
C28_Witness ==
  /\ pc = "hit"
  /\ Len(symbolDefinitions) >= 2
  /\ SymbolName(symbolDefinitions[1]) = SymbolName(symbolDefinitions[2])
  /\ symbolDefinitions[1].references # <<>>
  /\ SymbolsTouched(symbolDefinitions, found.position) = {2}

-----------------------------------------------------------------------------
(* C25: a change of a document, its snapshot and its diagnostics *)

ChangeMethods == {"textDocument/didOpen", "textDocument/didChange"}

QueryMethods ==
  {"textDocument/documentHighlight", "textDocument/prepareRename",
   "textDocument/rename"}

\* The last message was a change that documentDidOpenOrChange ignored: the
\* stored version is higher, and nothing was sent.
ChangeIgnored ==
  /\ pc = "idle"
  /\ incoming.uri \in DOMAIN openDocuments
  /\ OrZero(openDocuments[incoming.uri].version) > OrZero(incoming.version)
  /\ sent = <<>>

\* The last message was a change that is stored: the snapshot of its uri is
\* the model analyzeSource has built of its text, and one notification with
\* the diagnostics of that model, those of the parser first, was sent.
ChangeStored ==
  /\ pc = "idle"
  /\ source = incoming.text
  /\ incoming.uri \in DOMAIN openDocuments
  /\ openDocuments[incoming.uri] =
       [version |-> incoming.version, semanticModel |-> CurrentModel]
  /\ sent = <<Notify("textDocument/publishDiagnostics",
                     [uri |-> incoming.uri,
                      diagnostics |-> diagnostics \o semDiagnostics])>>

\* The answer to the query that the snapshot stored for its uri gives.
AnswerFromSnapshot ==
  LET uri == incoming.uri
      position == incoming.position
      result ==
        IF incoming.method = "textDocument/documentHighlight"
          THEN createHighlights(uri, position)
        ELSE IF incoming.method = "textDocument/prepareRename"
          THEN prepareRename(uri, position)
        ELSE createRenameEdit(uri, position, incoming.newName)
  IN  <<Response(incoming.id, OrNull(result))>>

\* C25: the handling of a change that is not ignored ends with its snapshot
\* stored and one publishDiagnostics notification sent; the snapshots change
\* at no other step, and a query is answered, while no analysis is running,
\* from the snapshot stored for its uri.
C25_ChangeStoredAndPublished ==
  /\ [](incoming.method \in ChangeMethods /\ pc \in {"idle", "threw"}
          => ChangeIgnored \/ ChangeStored)
  /\ [](incoming.method \in QueryMethods
          => pc = "idle" /\ sent = AnswerFromSnapshot)
  /\ [][\A uri \in Uris :
          (uri \in DOMAIN openDocuments /\ uri \in DOMAIN openDocuments'
             /\ openDocuments'[uri] # openDocuments[uri])
          => (pc = "done" /\ incoming.uri = uri /\ ChangeStored')]_vars

\* C25 without the exception of analyzeSource: the same, for the changes
\* whose analysis returns.
C25_ReturnedChangeStoredAndPublished ==
  /\ [](incoming.method \in ChangeMethods /\ pc = "idle"
          => ChangeIgnored \/ ChangeStored)
  /\ [](incoming.method \in QueryMethods
          => pc = "idle" /\ sent = AnswerFromSnapshot)
  /\ [][\A uri \in Uris :
          (uri \in DOMAIN openDocuments /\ uri \in DOMAIN openDocuments'
             /\ openDocuments'[uri] # openDocuments[uri])
          => (pc = "done" /\ incoming.uri = uri /\ ChangeStored')]_vars

-----------------------------------------------------------------------------
(* C26: the versions of a document *)

\* The step handles a change of an open document with a version lower than
\* the stored one, null counted as 0.
OlderVersionArrives ==
  /\ pc = "idle"
  /\ incoming'.method \in ChangeMethods
  /\ incoming'.uri \in DOMAIN openDocuments
  /\ OrZero(incoming'.version)
       < OrZero(openDocuments[incoming'.uri].version)

\* The handling of a change has ended, and the version of the change was
\* not lower than the one stored before: either the uri has no stored
\* version that is higher, or the change itself is what is stored.
NewerVersionHandled ==
  /\ incoming.method \in ChangeMethods
  /\ pc \in {"idle", "threw"}
  /\ incoming.uri \in DOMAIN openDocuments
       => OrZero(openDocuments[incoming.uri].version)
            <= OrZero(incoming.version)

\* The version a rename edit reports and the ranges it replaces are those of
\* the snapshot stored for the uri.
RenameOfSnapshot ==
  LET change == sent[1].result.documentChanges[1]
      symbol == HitOfRequest.symbolDefinition
  IN  /\ incoming.uri \in DOMAIN openDocuments
      /\ HitOfRequest # Undefined
      /\ change.textDocument.version = openDocuments[incoming.uri].version
      /\ RangesOf(change.edits)
           = RangesOf(symbol.definitions \o symbol.references)

\* C26: while a document is open its version, null counted as 0, does not
\* decrease; a change with a lower version leaves the version and the
\* snapshot as they are and publishes nothing; a change with an equal or
\* higher version replaces both; and a rename edit reports the version of
\* the snapshot its ranges come from.
C26_VersionsNeverDecrease ==
  /\ [][\A uri \in DOMAIN openDocuments \cap DOMAIN openDocuments' :
          OrZero(openDocuments'[uri].version)
            >= OrZero(openDocuments[uri].version)]_vars
  /\ [][OlderVersionArrives
          => (openDocuments' = openDocuments /\ sent' = <<>>
                /\ pc' = "idle")]_vars
  /\ [](NewerVersionHandled => ChangeStored)
  /\ []((Answered("textDocument/rename") /\ sent[1].result # Null)
          => RenameOfSnapshot)

\* C26 without the exception of analyzeSource: the same, for the changes
\* whose analysis returns.
C26_ReturnedVersionsNeverDecrease ==
  /\ [][\A uri \in DOMAIN openDocuments \cap DOMAIN openDocuments' :
          OrZero(openDocuments'[uri].version)
            >= OrZero(openDocuments[uri].version)]_vars
  /\ [][OlderVersionArrives
          => (openDocuments' = openDocuments /\ sent' = <<>>
                /\ pc' = "idle")]_vars
  /\ [](NewerVersionHandled /\ pc = "idle" => ChangeStored)
  /\ []((Answered("textDocument/rename") /\ sent[1].result # Null)
          => RenameOfSnapshot)

-----------------------------------------------------------------------------
(* C29: responses to requests and to notifications *)

RequestMethods ==
  {"initialize", "shutdown"} \cup QueryMethods

NotificationMethods ==
  {"initialized", "textDocument/didClose"} \cup ChangeMethods

\* The responses among what the handling of the last message has sent.
Responses == { k \in 1..Len(sent) : sent[k].kind = "response" }

\* C29: a request is answered with one response, which bears its id; the
\* handling of a notification sends no response; and the step that handles
\* textDocument/didClose removes the document from the store and does
\* nothing else.
C29_OneResponsePerRequest ==
  /\ [](incoming.method \in RequestMethods
          => /\ Cardinality(Responses) = 1
             /\ \A k \in Responses : sent[k].id = incoming.id)
  /\ [](incoming.method \in NotificationMethods => Responses = {})
  /\ [][incoming'.method = "textDocument/didClose" /\ pc = "idle"
          => /\ openDocuments' =
                  [u \in DOMAIN openDocuments \ {incoming'.uri} |->
                     openDocuments[u]]
             /\ sent' = <<>>
             /\ pc' = "idle"]_vars

\* C29 apart from textDocument/didClose: a request is answered with one
\* response, and initialized, didOpen and didChange with none.
C29_OneResponseButForDidClose ==
  /\ [](incoming.method \in RequestMethods
          => /\ Cardinality(Responses) = 1
             /\ \A k \in Responses : sent[k].id = incoming.id)
  /\ [](incoming.method \in NotificationMethods \ {"textDocument/didClose"}
          => Responses = {})
  /\ [][incoming'.method = "textDocument/didClose" /\ pc = "idle"
          => /\ openDocuments' =
                  [u \in DOMAIN openDocuments \ {incoming'.uri} |->
                     openDocuments[u]]
             /\ pc' = "idle"]_vars

-----------------------------------------------------------------------------
(* Reading messages from the input stream: tryParseLSPMessage *)

HEADER_LINE_LIMIT == 10

ContentLengthKey ==
  <<"C", "o", "n", "t", "e", "n", "t", "-", "L", "e", "n", "g", "t", "h">>

ContentTypeLine ==
  <<"C", "o", "n", "t", "e", "n", "t", "-", "T", "y", "p", "e", ":", " ",
  "a">>

CrLf == <<"\r", "\n">>

DigitChars == <<"0", "1", "2", "3", "4", "5", "6", "7", "8", "9">>

\* A JavaScript value that is a number, and the one that is not a number.
Number(value) == [type |-> "number", value |-> value]

NaN == [type |-> "NaN"]

\* source.split("\r\n"): the pieces between the separators.
RECURSIVE SplitCrLf(_)
SplitCrLf(s) ==
  The({ IF k = 0 THEN <<s>>
        ELSE <<SubSeq(s, 1, k - 1)>> \o SplitCrLf(SubSeq(s, k + 2, Len(s))) :
        k \in { IF \E j \in 1..(Len(s) - 1) : SubSeq(s, j, j + 1) = CrLf
                THEN CHOOSE j \in 1..(Len(s) - 1) :
                       /\ SubSeq(s, j, j + 1) = CrLf
                       /\ \A h \in 1..(j - 1) : SubSeq(s, h, h + 1) # CrLf
                ELSE 0 } })

\* line.split(":", 2): the text before the first colon, and the text between
\* the first and the second colon, undefined when the line has no colon.
Colons(line) == { k \in 1..Len(line) : line[k] = ":" }

FirstColon(line) == CHOOSE k \in Colons(line) : \A j \in Colons(line) : k <= j

KeyOf(line) ==
  IF Colons(line) = {} THEN line ELSE SubSeq(line, 1, FirstColon(line) - 1)

ValueOf(line) ==
  IF Colons(line) = {} THEN Undefined
  ELSE LET after == SubSeq(line, FirstColon(line) + 1, Len(line))
       IN  Array(KeyOf(after))

\* value.trim()
RECURSIVE trim(_)
trim(s) ==
  IF s # <<>> /\ s[1] = " " THEN trim(Tail(s))
  ELSE IF s # <<>> /\ s[Len(s)] = " " THEN trim(SubSeq(s, 1, Len(s) - 1))
  ELSE s

\* The value of a text of decimal digits.
RECURSIVE DigitsValue(_)
DigitsValue(s) ==
  IF s = <<>> THEN 0
  ELSE 10 * DigitsValue(SubSeq(s, 1, Len(s) - 1))
       + (CHOOSE d \in 0..9 : DigitChars[d + 1] = s[Len(s)])

IsDigits(s) == \A k \in 1..Len(s) : s[k] \in Digits

\* +text: the number a text of digits denotes, 0 for the empty text.
ToNumber(s) == IF IsDigits(s) THEN Number(DigitsValue(s)) ELSE NaN

\* JSON.parse(body), for a body that is a number; undefined stands for the
\* SyntaxError of any other body.
JsonParse(body) ==
  IF body # <<>> /\ IsDigits(body) THEN Number(DigitsValue(body))
  ELSE Undefined

\* The loop of tryParseLSPMessage over the header lines from line k on.
RECURSIVE HeaderLoop(_, _, _)
HeaderLoop(lines, k, st) ==
  IF k > Len(lines) \/ st.threw THEN st
  ELSE LET line == lines[k]
           next == [st EXCEPT !.i = @ + Len(line) + 2]
       IN  IF line = <<>> THEN [next EXCEPT !.hasBody = TRUE]
           ELSE IF KeyOf(line) # ContentLengthKey
             THEN HeaderLoop(lines, k + 1, next)
           ELSE IF ValueOf(line).type = "undefined"
             THEN [next EXCEPT !.threw = TRUE]
           ELSE HeaderLoop(lines, k + 1,
                           [next EXCEPT !.contentLength =
                              ToNumber(trim(ValueOf(line).items))])

tryParseLSPMessage(text) ==
  The({ IF st.threw THEN [type |-> "threw"]
        ELSE IF ~st.hasBody THEN [type |-> "undefined"]
        ELSE IF st.contentLength.type # "number" THEN [type |-> "threw"]
        ELSE LET end == st.i + st.contentLength.value
                 body == SubSeq(text, st.i + 1, end)
             IN  IF Len(text) < end THEN [type |-> "undefined"]
                 ELSE IF JsonParse(body) = Undefined THEN [type |-> "threw"]
                 ELSE [type |-> "message", message |-> JsonParse(body),
                       rest |-> SubSeq(text, end + 1, Len(text))] :
        st \in { HeaderLoop(SubSeq(SplitCrLf(text), 1,
                                   IF Len(SplitCrLf(text)) < HEADER_LINE_LIMIT
                                   THEN Len(SplitCrLf(text))
                                   ELSE HEADER_LINE_LIMIT),
                            1,
                            [i |-> 0, contentLength |-> Undefined,
                             hasBody |-> FALSE, threw |-> FALSE]) } })

-----------------------------------------------------------------------------
(* Reading messages from the input stream: listenToLSPClient *)

\* Largest number of messages of a stream.
MaxMessages == 2

\* A message as the client frames it: the header lines, the blank line and
\* the body.
Frame(headers, body) ==
  JoinWith(headers, CrLf) \o CrLf \o CrLf \o body

\* The messages the client sends: the number 7 with the Content-Length header
\* alone, and the number 42 with another header before Content-Length.
FramedMessages ==
  { [bytes |-> Frame(<<ContentLengthKey \o <<":", " ", "1">>>>, <<"7">>),
     message |-> Number(7)],
    [bytes |-> Frame(<<ContentTypeLine,
                       ContentLengthKey \o <<":", " ", "2">>>>,
                     <<"4", "2">>),
     message |-> Number(42)] }

RECURSIVE BytesOf(_)
BytesOf(messages) ==
  IF messages = <<>> THEN <<>>
  ELSE Head(messages).bytes \o BytesOf(Tail(messages))

Streams ==
  UNION { [1..n -> FramedMessages] : n \in 1..MaxMessages }

\* listenToLSPClient has been called: the buffer is empty and the bytes of a
\* stream are still to arrive.
ListenInit ==
  /\ tokens = <<>>
  /\ pc = "listen"
  /\ i = 0
  /\ hasError = FALSE
  /\ diagnostics = <<>>
  /\ stack = <<>>
  /\ statements = <<>>
  /\ agenda = <<>>
  /\ symbolDefinitions = <<>>
  /\ environment = <<>>
  /\ semDiagnostics = <<>>
  /\ openDocuments = <<>>
  /\ incoming = [method |-> "none"]
  /\ sent = <<>>
  /\ syn = [type |-> "listener", buffer |-> <<>>, calls |-> <<>>]
  /\ \E stream \in Streams :
       /\ source = BytesOf(stream)
       /\ found = [type |-> "stream",
                   messages |-> [k \in 1..Len(stream) |-> stream[k].message]]

\* The handler of the data event, for a chunk of the first n bytes that have
\* not arrived yet: the chunk is added to the buffer and parseAsPossible
\* runs, which calls onMessage when tryParseLSPMessage returns a message.
Data ==
  /\ pc = "listen"
  /\ \E n \in 1..Len(source) :
       LET buffer == syn.buffer \o SubSeq(source, 1, n)
           result == tryParseLSPMessage(buffer)
       IN  /\ source' = SubSeq(source, n + 1, Len(source))
           /\ syn' = IF result.type = "message"
                     THEN [syn EXCEPT !.buffer = result.rest,
                                      !.calls = Append(@, result.message)]
                     ELSE [syn EXCEPT !.buffer = buffer]
           /\ pc' = IF result.type = "threw" THEN "threw" ELSE "listen"
  /\ UNCHANGED <<tokens, parserVars, statements, analyzerVars, openDocuments,
                 incoming, sent, found>>

ListenSpec == ListenInit /\ [][Data]_vars

-----------------------------------------------------------------------------
(* C30: the chunks of the input stream *)

\* C30: however the bytes of a stream of framed messages are cut into
\* chunks, no data event throws, onMessage is called with the messages of
\* the stream in their order, and when the last chunk has been handled it
\* has been called with all of them.
C30_DeliveryWhateverTheChunks ==
  /\ pc # "threw"
  /\ IsPrefix(syn.calls, found.messages)
  /\ source = <<>> => syn.calls = found.messages

\* C30 for a stream of one message: unless a data event has thrown, the
\* message is delivered when its last byte has arrived.
C30_OneMessageDelivered ==
  (Len(found.messages) = 1 /\ pc = "listen" /\ source = <<>>)
    => syn.calls = found.messages

-----------------------------------------------------------------------------
(* The compiler of curage.ts: tokenize *)

\* The index after the run of characters of the set that starts at x.
RECURSIVE RunEnd(_, _, _)
RunEnd(lineText, x, chars) ==
  IF x <= Len(lineText) /\ lineText[x] \in chars
  THEN RunEnd(lineText, x + 1, chars) ELSE x

\* The token of the match of tokenRegexp that starts at column x - 1, or
\* undefined for spaces and invalid characters, and the index after the
\* match.  The id of a token stands for the identity of the token object:
\* it is the place of the token in the list.
curage_match(lineText, x, id) ==
  LET c == lineText[x]
      signed == c \in {"+", "-"} /\ x < Len(lineText)
                  /\ lineText[x + 1] \in Digits
      digitsFrom == IF signed THEN x + 1 ELSE x
      digitsEnd == RunEnd(lineText, digitsFrom, Digits)
      nameEnd == RunEnd(lineText, x, NameChars)
      name == SubSeq(lineText, x, nameEnd - 1)
  IN  IF c = " " THEN [end |-> RunEnd(lineText, x, {" "}), token |-> Undefined]
      ELSE IF signed \/ c \in Digits
        THEN [end |-> digitsEnd,
              token |-> [type |-> "integer", id |-> id,
                         value |-> (IF c = "-" THEN -1 ELSE 1)
                                   * DigitsValue(SubSeq(lineText, digitsFrom,
                                                        digitsEnd - 1))]]
      ELSE IF c \in NameChars
        THEN [end |-> nameEnd,
              token |-> IF name = KwLet THEN [type |-> "let", id |-> id]
                        ELSE [type |-> "name", id |-> id, value |-> name]]
      ELSE IF c \in PunctuationChars
        THEN [end |-> x + 1, token |-> [type |-> c, id |-> id]]
      ELSE [end |-> x + 1, token |-> Undefined]

\* The loop of tokenize over the matches of a line from column x - 1 on: a
\* token is pushed as a pair with its position.
RECURSIVE curage_line(_, _, _, _)
curage_line(lineText, y, x, list) ==
  IF x > Len(lineText) THEN list
  ELSE The({ curage_line(lineText, y, m.end,
                         IF m.token.type = "undefined" THEN list
                         ELSE Append(list, [token |-> m.token,
                                            pos |-> Pos(y, x - 1)])) :
             m \in {curage_match(lineText, x, Len(list))} })

RECURSIVE curage_lines(_, _, _)
curage_lines(lines, y, list) ==
  IF y >= Len(lines) THEN list
  ELSE curage_lines(lines, y + 1, curage_line(lines[y + 1], y, 1, list))

curage_tokenize(text) == curage_lines(SplitLines(text), 0, <<>>)

-----------------------------------------------------------------------------
(* The compiler of curage.ts: parse *)

\* `i` and `issues` of parse.
PairState(index, issues) == [i |-> index, issues |-> issues]

curage_isEOF(st) == st.i >= Len(tokens)

curage_nextToken(st) ==
  IF st.i >= Len(tokens) THEN Undefined ELSE tokens[st.i + 1].token

curage_nextPos(st) ==
  IF st.i >= Len(tokens)
  THEN (IF Len(tokens) = 0 THEN Pos(0, 0) ELSE tokens[Len(tokens)].pos)
  ELSE tokens[st.i + 1].pos

curage_issue(st, message) ==
  [st EXCEPT !.issues = Append(@, [message |-> message,
                                   y |-> curage_nextPos(st).y,
                                   x |-> curage_nextPos(st).x])]

\* end(): the node of the frame that start(type, first) has pushed, with the
\* children pushed since.
curage_end(type, children, first, st) ==
  [type |-> type, children |-> children,
   tokens |-> SubSeq(tokens, first + 1, st.i)]

curage_skipPunctuation(st, type) ==
  IF curage_nextToken(st).type = type THEN [st EXCEPT !.i = @ + 1]
  ELSE curage_issue(st, <<"Expected '", type, "'.">>)

\* The loop of skipOverStatement.
RECURSIVE curage_skipLoop(_)
curage_skipLoop(st) ==
  IF curage_isEOF(st) THEN st
  ELSE IF curage_nextToken(st).type = ";" THEN [st EXCEPT !.i = @ + 1]
  ELSE IF curage_nextToken(st).type = "let" THEN st
  ELSE curage_skipLoop([st EXCEPT !.i = @ + 1])

curage_skipOverStatement(st) ==
  IF curage_nextToken(st).type = ";" THEN [st EXCEPT !.i = @ + 1]
  ELSE curage_skipLoop(curage_issue(st, <<"Expected ';'.">>))

\* tryParseNumber and tryParseName.
curage_tryParse(st, type) ==
  IF curage_nextToken(st).type # type THEN [st |-> st, node |-> Undefined]
  ELSE [st |-> [st EXCEPT !.i = @ + 1],
        node |-> curage_end(type, <<>>, st.i, [st EXCEPT !.i = @ + 1])]

curage_parseAtom(st) ==
  IF curage_nextToken(st).type = "integer" THEN curage_tryParse(st, "integer")
  ELSE IF curage_nextToken(st).type = "name" THEN curage_tryParse(st, "name")
  ELSE [st |-> curage_issue(st, <<"Expected a number or name.">>),
        node |-> curage_end("error", <<>>, st.i, st)]

RECURSIVE curage_parseCallExpression(_)
curage_parseExpression(st) ==
  The({ IF callNode.node.type # "undefined" THEN callNode
        ELSE [st |-> curage_issue(callNode.st, <<"Expected an expression.">>),
              node |-> curage_end("error", <<>>, callNode.st.i, callNode.st)] :
        callNode \in {curage_parseCallExpression(st)} })

curage_parseCallExpression(st) ==
  The({ IF curage_nextToken(callee.st).type # "(" THEN callee
        ELSE The({ The({ [st |-> q,
                          node |-> curage_end("call-expression",
                                              <<callee.node, argument.node>>,
                                              st.i, q)] :
                         q \in {curage_skipPunctuation(argument.st, ")")} }) :
                   argument \in {curage_parseExpression(
                                   curage_skipPunctuation(callee.st, "("))} }) :
        callee \in {curage_parseAtom(st)} })

curage_tryParseLetStatement(st) ==
  IF curage_nextToken(st).type # "let" THEN [st |-> st, node |-> Undefined]
  ELSE The({ The({ The({ [st |-> q,
                          node |-> curage_end("let-statement",
                                              <<name.node, init.node>>,
                                              st.i, q)] :
                         q \in {curage_skipOverStatement(init.st)} }) :
                   init \in {curage_parseExpression(
                               curage_skipPunctuation(name.st, "="))} }) :
             name \in {curage_tryParse([st EXCEPT !.i = @ + 1], "name")} })

curage_parseStatement(st) ==
  The({ IF letNode.node.type # "undefined" THEN letNode
        ELSE The({ The({ [st |-> q,
                          node |-> curage_end("expression-statement",
                                              <<expression.node>>, st.i, q)] :
                         q \in {curage_skipOverStatement(expression.st)} }) :
                   expression \in {curage_parseExpression(st)} }) :
        letNode \in {curage_tryParseLetStatement(st)} })

\* The loop of parseProgram.
RECURSIVE curage_statements(_, _)
curage_statements(st, children) ==
  IF curage_isEOF(st) THEN [st |-> st, children |-> children]
  ELSE The({ curage_statements(s.st, Append(children, s.node)) :
             s \in {curage_parseStatement(st)} })

curage_parse ==
  The({ [rootNode |-> curage_end("program", r.children, 0, r.st),
         issues |-> r.st.issues] :
        r \in {curage_statements(PairState(0, <<>>), <<>>)} })

-----------------------------------------------------------------------------
(* The compiler of curage.ts: analyze and the queries *)

\* `symbols`, `env` and `issues` of analyze; nextSymbolId is one more than
\* the number of symbols.
SemaState(symbols, env, issues) ==
  [symbols |-> symbols, env |-> env, issues |-> issues]

\* go(node) of analyze.
RECURSIVE go(_, _), goChildren(_, _, _)
go(az, node) ==
  IF node.type = "name"
    THEN LET tp == node.tokens[1]
         IN  IF tp.token.value \notin DOMAIN az.env
               THEN [az EXCEPT !.issues =
                       Append(@, [message |-> <<"Use of undefined variable '",
                                                tp.token.value, "'.">>,
                                  y |-> tp.pos.y, x |-> tp.pos.x])]
             ELSE [az EXCEPT !.symbols[az.env[tp.token.value]].refs =
                               Append(@, tp)]
  ELSE IF node.type = "let-statement"
    THEN The({ IF node.children[1].type = "undefined" THEN analysed
               ELSE LET tp == node.children[1].tokens[1]
                        symbolId == Len(analysed.symbols) + 1
                    IN  [analysed EXCEPT
                           !.symbols =
                              Append(@, [symbolId |-> symbolId,
                                         rawName |-> tp.token.value,
                                         defs |-> <<tp>>, refs |-> <<>>]),
                           !.env = (tp.token.value :> symbolId) @@ @] :
               analysed \in {go(az, node.children[2])} })
  ELSE goChildren(az, node.children, 1)

\* The loop of go over the children of a node from child k on.
goChildren(az, children, k) ==
  IF k > Len(children) THEN az
  ELSE The({ goChildren(next, children, k + 1) :
             next \in {go(az, children[k])} })

analyze(syntax) == go(SemaState(<<>>, <<>>, <<>>), syntax.rootNode)

\* findTokenAt of curage.ts: the last pair before the first one that lies
\* after the position.
curage_findTokenAt(syntax, pos) ==
  LET list == syntax.rootNode.tokens
      after == { k \in 1..Len(list) : comparePos(list[k].pos, pos) > 0 }
      last == IF after = {} THEN Len(list)
              ELSE (CHOOSE k \in after : \A j \in after : k <= j) - 1
  IN  IF last = 0 THEN Undefined ELSE list[last].token

\* findSymbolDef changed to look for a token of the same text.
findSymbolDef_ByName(sema, tp) ==
  LET holds == { s \in 1..Len(sema.symbols) :
                 /\ tp.token.type = "name"
                 /\ sema.symbols[s].rawName = tp.token.value }
  IN  IF holds = {} THEN Undefined
      ELSE sema.symbols[CHOOSE s \in holds : \A r \in holds : s <= r]

\* findSymbolDef: the first symbol that lists the token object.
findSymbolDef(sema, tp) ==
  LET holds == { s \in 1..Len(sema.symbols) :
                 \E k \in 1..Len(sema.symbols[s].defs
                                  \o sema.symbols[s].refs) :
                   (sema.symbols[s].defs \o sema.symbols[s].refs)[k].token.id
                     = tp.token.id }
  IN  IF holds = {} THEN Undefined
      ELSE sema.symbols[CHOOSE s \in holds : \A r \in holds : s <= r]

\* posToRange and possToLocations.
possToLocations(uri, poss) ==
  [k \in 1..Len(poss) |->
     [uri |-> uri,
      range |-> Range(Position(poss[k].y, poss[k].x),
                      Position(poss[k].y, poss[k].x))]]

findReferenceLocations(uri, syntax, sema, position, context) ==
  LET pos == Pos(position.line, position.character)
      token == curage_findTokenAt(syntax, pos)
      symbolDef == findSymbolDef(sema, [token |-> token, pos |-> pos])
      list == symbolDef.refs
              \o (IF context.includeDeclaration THEN symbolDef.defs ELSE <<>>)
  IN  IF token = Undefined THEN <<>>
      ELSE IF symbolDef = Undefined THEN <<>>
      ELSE possToLocations(uri, [k \in 1..Len(list) |-> list[k].pos])

-----------------------------------------------------------------------------
(* The compiler of curage.ts: the state machine *)

\* Largest number of statements of a text.
MaxStatements == 3

\* The statements of the texts: declarations of a and b with a number or a
\* name as initialiser, a call, a name as a statement followed by a name
\* that is skipped, a declaration without a name and a call that is not
\* closed.
PairPieces ==
  { <<"l", "e", "t", " ", "a", " ", "=", " ", "1", ";">>,
    <<"l", "e", "t", " ", "a", " ", "=", " ", "a", ";">>,
    <<"a", "(", "a", ")", ";">>,
    <<"l", "e", "t", " ", "b", " ", "=", " ", "a", ";">>,
    <<"b", " ", "a", ";">>,
    <<"l", "e", "t", " ", "=", " ", "a", ";">>,
    <<"a", "(", "b", ";">> }

\* The statements on one line, as in the tests, or one statement per line.
PairTexts ==
  UNION { { JoinWith(pieces, separator) :
            pieces \in [1..n -> PairPieces],
            separator \in {<<" ">>, <<"\n">>} } :
          n \in 0..MaxStatements }

DocumentUri == "file:a"

\* A text is given to validateSource.
PairInit ==
  /\ source \in PairTexts
  /\ tokens = <<>>
  /\ pc = "source"
  /\ i = 0
  /\ hasError = FALSE
  /\ diagnostics = <<>>
  /\ stack = <<>>
  /\ statements = <<>>
  /\ agenda = <<>>
  /\ symbolDefinitions = <<>>
  /\ environment = <<>>
  /\ semDiagnostics = <<>>
  /\ Unused

\* validateSource: tokenize(source).
PairTokenize ==
  /\ pc = "source"
  /\ tokens' = curage_tokenize(source)
  /\ pc' = "tokens"
  /\ UNCHANGED <<source, parserVars, statements, analyzerVars, serverVars,
                 compilerVars>>

\* validateSource: parse(tokens).
PairParse ==
  /\ pc = "tokens"
  /\ syn' = curage_parse
  /\ pc' = "syntax"
  /\ UNCHANGED <<source, tokens, parserVars, statements, analyzerVars,
                 serverVars, found>>

\* validateSource: analyze(syn); the symbols of the semantic model are kept
\* in the order of their ids.
PairAnalyze ==
  /\ pc = "syntax"
  /\ \E sema \in {analyze(syn)} :
       /\ symbolDefinitions' = sema.symbols
       /\ semDiagnostics' = sema.issues
  /\ pc' = "sema"
  /\ UNCHANGED <<source, tokens, parserVars, statements, agenda, environment,
                 serverVars, compilerVars>>

CurrentSema == [syn |-> syn, symbols |-> symbolDefinitions,
                issues |-> semDiagnostics]

\* testFindReferences: findSymbolDef(sema, [findTokenAt(sema.syn, pos), pos]).
FindSymbolDef ==
  /\ pc = "sema"
  /\ \E pos \in PositionsOf(source) :
       \E token \in {curage_findTokenAt(syn, pos)} :
         found' = [type |-> "symbol", pos |-> pos, token |-> token,
                   symbolDef |->
                     IF token = Undefined THEN Undefined
                     ELSE findSymbolDef(CurrentSema,
                                        [token |-> token, pos |-> pos])]
  /\ pc' = "found"
  /\ UNCHANGED <<source, tokens, parserVars, statements, analyzerVars,
                 serverVars, syn>>

\* A call of findReferenceLocations on the result of validateSource.
FindReferenceLocations ==
  /\ pc = "sema"
  /\ \E pos \in PositionsOf(source), includeDeclaration \in BOOLEAN :
       found' = [type |-> "locations", pos |-> pos,
                 includeDeclaration |-> includeDeclaration,
                 result |->
                   findReferenceLocations(
                     DocumentUri, syn, CurrentSema,
                     Position(pos.y, pos.x),
                     [includeDeclaration |-> includeDeclaration])]
  /\ pc' = "found"
  /\ UNCHANGED <<source, tokens, parserVars, statements, analyzerVars,
                 serverVars, syn>>

ReferenceNext ==
  \/ PairTokenize
  \/ PairParse
  \/ PairAnalyze
  \/ FindSymbolDef
  \/ FindReferenceLocations

ReferenceSpec == PairInit /\ [][ReferenceNext]_vars

-----------------------------------------------------------------------------
(* C21: the references of a declaration *)

\* The ids of the tokens of the name nodes of a node, the declared name of a
\* let statement excluded: the names the statement uses, as callee or
\* argument of a call too.
RECURSIVE NameUses(_)
NameUses(node) ==
  IF node.type = "undefined" THEN {}
  ELSE IF node.type = "name" THEN {node.tokens[1].token.id}
  ELSE IF node.type = "let-statement" THEN NameUses(node.children[2])
  ELSE UNION { NameUses(node.children[k]) : k \in 1..Len(node.children) }

ProgramStatements == syn.rootNode.children

\* The statements that declare a name, in the order of the text.
Declarations ==
  { j \in 1..Len(ProgramStatements) :
      /\ ProgramStatements[j].type = "let-statement"
      /\ ProgramStatements[j].children[1].type = "name" }

DeclaredToken(j) == ProgramStatements[j].children[1].tokens[1].token

\* The ids of the uses of the name declared by statement j that come after
\* the statement, up to the initialiser of the next declaration of the
\* name, or up to the end of the text.
UsesOfDeclaration(j) ==
  LET again == { h \in Declarations :
                 h > j /\ DeclaredToken(h).value = DeclaredToken(j).value }
      last == IF again = {} THEN Len(ProgramStatements)
              ELSE CHOOSE h \in again : \A g \in again : h <= g
  IN  { id \in UNION { NameUses(ProgramStatements[h]) : h \in (j + 1)..last } :
        tokens[id + 1].token.value = DeclaredToken(j).value }

\* The ids of the tokens of a list of pairs.
IdsOf(pairs) == [k \in 1..Len(pairs) |-> pairs[k].token.id]

Ascending(ids) == \A j, k \in 1..Len(ids) : j < k => ids[j] < ids[k]

\* C21: the symbols are the declarations, in the order of the text; the
\* references of a symbol are the uses of its name after its let statement,
\* up to and including the initialiser of the next declaration of the name,
\* each once and in the order of the text; and the symbol found for a token
\* is the one that lists the token, so that the symbol found at a
\* declaration has these references.
C21_ReferencesUntilNextDeclaration ==
  /\ pc \in {"sema", "found"} =>
       /\ Len(symbolDefinitions) = Cardinality(Declarations)
       /\ \A j \in Declarations :
            LET symbol == symbolDefinitions[
                            Cardinality({ h \in Declarations : h <= j })]
            IN  /\ IdsOf(symbol.defs) = <<DeclaredToken(j).id>>
                /\ Range1(IdsOf(symbol.refs)) = UsesOfDeclaration(j)
                /\ Ascending(IdsOf(symbol.refs))
  /\ (pc = "found" /\ found.type = "symbol") =>
       \A s \in 1..Len(symbolDefinitions) :
         (found.token # Undefined
            /\ found.token.id \in Range1(IdsOf(symbolDefinitions[s].defs
                                               \o symbolDefinitions[s].refs)))
         => found.symbolDef = symbolDefinitions[s]

\* `let a = 1; let a = a; a(a);` asked at the second declaration of a: the
\* symbol found has that declaration and the two tokens of the call.
C21_Witness ==
  /\ pc = "found"
  /\ found.type = "symbol"
  /\ source = JoinWith(<<<<"l", "e", "t", " ", "a", " ", "=", " ", "1", ";">>,
                         <<"l", "e", "t", " ", "a", " ", "=", " ", "a", ";">>,
                         <<"a", "(", "a", ")", ";">>>>, <<" ">>)
  /\ found.pos = Pos(0, 15)
  /\ found.symbolDef # Undefined
  /\ [k \in 1..Len(found.symbolDef.defs) |-> found.symbolDef.defs[k].pos]
       = <<Pos(0, 15)>>
  /\ [k \in 1..Len(found.symbolDef.refs) |-> found.symbolDef.refs[k].pos]
       = <<Pos(0, 22), Pos(0, 24)>>

-----------------------------------------------------------------------------
(* C22: the locations of findReferenceLocations *)

\* The symbol that lists the token findTokenAt finds at the position asked
\* about, or undefined.
SymbolAsked ==
  LET token == curage_findTokenAt(syn, found.pos)
  IN  IF token = Undefined THEN Undefined
      ELSE findSymbolDef(CurrentSema, [token |-> token, pos |-> found.pos])

\* The zero-length locations of the positions of a list of pairs.
LocationsOf(pairs) ==
  [k \in 1..Len(pairs) |->
     [uri |-> DocumentUri,
      range |-> Range(Position(pairs[k].pos.y, pairs[k].pos.x),
                      Position(pairs[k].pos.y, pairs[k].pos.x))]]

\* C22: for a position that gives a symbol the result is the locations of
\* the definitions of the symbol, when the declaration is asked for, followed
\* by those of its references in the order of the text, all with the uri of
\* the document; for a position that gives no token or no symbol it is
\* empty.
C22_DefinitionsThenReferences ==
  (pc = "found" /\ found.type = "locations") =>
    IF SymbolAsked = Undefined THEN found.result = <<>>
    ELSE /\ found.result =
              LocationsOf((IF found.includeDeclaration
                           THEN SymbolAsked.defs ELSE <<>>)
                          \o SymbolAsked.refs)
         /\ Ascending(IdsOf(SymbolAsked.refs))

\* The result as findReferenceLocations builds it: the references come
\* first and the definitions, when asked for, last.
C22_ReferencesThenDefinitions ==
  (pc = "found" /\ found.type = "locations") =>
    IF SymbolAsked = Undefined THEN found.result = <<>>
    ELSE /\ found.result =
              LocationsOf(SymbolAsked.refs
                          \o (IF found.includeDeclaration
                              THEN SymbolAsked.defs ELSE <<>>))
         /\ Ascending(IdsOf(SymbolAsked.refs))

=============================================================================
